---- MODULE Spec2Model ----
(***************************************************************************)
(* msgpack-es: the encoder (encoding.ts, kept in src/src/Decoder.ts from   *)
(* line 239), the decoder (decoding.ts, kept in src/src/extensions.ts from *)
(* line 75) and the extension registry (src/src/extensions.ts).            *)
(*                                                                         *)
(* ECMAScript numbers exceed the integers TLC computes with, so a number   *)
(* is held as a sign and a magnitude of NumW bits, most significant first. *)
(***************************************************************************)
EXTENDS Integers, Sequences, FiniteSets, TLC

\* Bytes of a magnitude.  2^64 (the first BigInt that is refused) needs nine.
NumBytes == 9

----------------------------------------------------------------------------
(* Numbers: a sign and a magnitude, the magnitude as big-endian bytes *)

Zero == [i \in 1..NumBytes |-> 0]

\* The magnitude of a natural n < 2^31.
NatOf(n) == [i \in 1..NumBytes |-> IF NumBytes - i > 3 THEN 0 ELSE (n \div (256 ^ (NumBytes - i))) % 256]

\* 2^k as a magnitude.
Pow2(k) == [i \in 1..NumBytes |-> IF i = NumBytes - (k \div 8) THEN 2 ^ (k % 8) ELSE 0]

\* a < b, a <= b on magnitudes.
Lt(a, b) == \E i \in 1..NumBytes : a[i] < b[i] /\ \A j \in 1..(i - 1) : a[j] = b[j]
Le(a, b) == a = b \/ Lt(a, b)

\* The n low bytes of a magnitude: its value modulo 2^(8n).
LowBytes(a, n) == [i \in 1..n |-> a[NumBytes - n + i]]

\* Bytes widened to a magnitude.
Widen(bytes) ==
    [i \in 1..NumBytes |-> IF i > NumBytes - Len(bytes) THEN bytes[i - (NumBytes - Len(bytes))] ELSE 0]

\* Bytes to bits and back, most significant first.
ByteAt(bits, j) ==
    LET b(k) == bits[8 * (j - 1) + k]
    IN  128 * b(1) + 64 * b(2) + 32 * b(3) + 16 * b(4) + 8 * b(5) + 4 * b(6) + 2 * b(7) + b(8)
BitsToBytes(bits) == [j \in 1..(Len(bits) \div 8) |-> ByteAt(bits, j)]
BytesToBits(bytes) ==
    [i \in 1..(8 * Len(bytes)) |-> (bytes[((i - 1) \div 8) + 1] \div (2 ^ (7 - ((i - 1) % 8)))) % 2]

\* bits + 1 modulo 2^Len(bits).
IncBits(bits) ==
    LET zs == {i \in 1..Len(bits) : bits[i] = 0}
        k  == IF zs = {} THEN 0 ELSE CHOOSE i \in zs : \A j \in zs : j <= i
    IN  [i \in 1..Len(bits) |-> IF i < k THEN bits[i] ELSE IF i = k THEN 1 ELSE 0]

\* -bytes modulo 2^(8 Len(bytes)): the two's complement.
NegBytes(bytes) == BitsToBytes(IncBits([i \in 1..(8 * Len(bytes)) |-> 1 - BytesToBits(bytes)[i]]))

\* A natural below 2^31 from its bits or from its magnitude.
BitsToInt(bits) ==
    LET RECURSIVE go(_, _)
        go(i, acc) == IF i > Len(bits) THEN acc ELSE go(i + 1, 2 * acc + bits[i])
    IN  go(1, 0)
IntOf(a) == ((a[NumBytes - 3] * 256 + a[NumBytes - 2]) * 256 + a[NumBytes - 1]) * 256 + a[NumBytes]

\* a + b modulo 2^(8 NumBytes), a * k modulo 2^(8 NumBytes), and the
\* quotient and remainder of a by k, for magnitudes a, b and a natural
\* k <= 10^6; a shifted right by 32 bits.
AddMag(a, b) ==
    LET RECURSIVE go(_, _, _)
        go(i, carry, acc) ==
            IF i = 0 THEN acc
            ELSE go(i - 1, (a[i] + b[i] + carry) \div 256, <<(a[i] + b[i] + carry) % 256>> \o acc)
    IN  go(NumBytes, 0, <<>>)
MulSmall(a, k) ==
    LET RECURSIVE go(_, _, _)
        go(i, carry, acc) ==
            IF i = 0 THEN acc
            ELSE go(i - 1, (a[i] * k + carry) \div 256, <<(a[i] * k + carry) % 256>> \o acc)
    IN  go(NumBytes, 0, <<>>)
DivSmall(a, k) ==
    LET RECURSIVE go(_, _, _)
        go(i, rem, acc) ==
            IF i > NumBytes THEN [q |-> acc, r |-> rem]
            ELSE go(i + 1, (rem * 256 + a[i]) % k, Append(acc, (rem * 256 + a[i]) \div k))
    IN  go(1, 0, <<>>)
Shr32(a) == [i \in 1..NumBytes |-> IF i > 4 THEN a[i - 4] ELSE 0]

\* An ECMAScript number with an integral value: sign and magnitude.
Num(neg, mag) == [t |-> "number", neg |-> neg /\ mag # Zero, mag |-> mag]
PosInt(n) == Num(FALSE, NatOf(n))
NegInt(n) == Num(TRUE, NatOf(n))
\* A number that is no integer (or no finite one), held as its IEEE 754 bytes.
Float(bytes) == [t |-> "float", bytes |-> bytes]

\* ToUint8/16/32 and ToInt8/16/32 of an integral number agree on the bytes
\* stored: the value modulo 2^(8n).
ToBytes(num, n) == IF num.neg THEN NegBytes(LowBytes(num.mag, n)) ELSE LowBytes(num.mag, n)

\* a - b of magnitudes as a number, and x + m of a number and a magnitude.
SubMag(a, b) ==
    IF Le(b, a) THEN [t |-> "number", neg |-> FALSE, mag |-> AddMag(a, NegBytes(b))]
    ELSE [t |-> "number", neg |-> TRUE, mag |-> AddMag(b, NegBytes(a))]
AddTo(x, m) == IF x.neg THEN SubMag(m, x.mag) ELSE [t |-> "number", neg |-> FALSE, mag |-> AddMag(x.mag, m)]

\* The number an unsigned / a signed big-endian field holds.
UintOfBytes(bytes) == Num(FALSE, Widen(bytes))
SintOfBytes(bytes) ==
    IF bytes[1] >= 128 THEN Num(TRUE, Widen(NegBytes(bytes))) ELSE Num(FALSE, Widen(bytes))

\* The bits of a magnitude and the index of the leading one of a non-zero one.
NumW == 8 * NumBytes
Lead(bits) == CHOOSE i \in 1..Len(bits) : bits[i] = 1 /\ \A j \in 1..(i - 1) : bits[j] = 0

\* DataView.setFloat64 of an integral number whose magnitude has at most 53
\* significant bits: sign, biased exponent, the 52 bits after the leading one.
F64Bytes(num) ==
    IF num.mag = Zero THEN <<0, 0, 0, 0, 0, 0, 0, 0>>
    ELSE LET mag  == BytesToBits(num.mag)
             l    == Lead(mag)
             e    == 1023 + (NumW - l)
             bits == [i \in 1..64 |->
                        IF i = 1 THEN (IF num.neg THEN 1 ELSE 0)
                        ELSE IF i <= 12 THEN (e \div (2 ^ (12 - i))) % 2
                        ELSE IF l + (i - 12) <= NumW THEN mag[l + (i - 12)] ELSE 0]
         IN  BitsToBytes(bits)

\* DataView.getFloat64: the number the eight bytes hold; an integral value is
\* the same ECMAScript number as the integer.
F64Value(bytes) ==
    LET bits == BytesToBits(bytes)
        e    == BitsToInt([i \in 1..11 |-> bits[i + 1]]) - 1023
        mant(i) == bits[12 + i]
    IN  IF \A i \in 2..64 : bits[i] = 0 THEN Num(FALSE, Zero)
        ELSE IF e >= 0 /\ e < NumW /\ (\A i \in 1..52 : i > e => mant(i) = 0)
        THEN Num(bits[1] = 1,
                 BitsToBytes([i \in 1..NumW |->
                    IF i < NumW - e THEN 0
                    ELSE IF i = NumW - e THEN 1
                    ELSE IF i - (NumW - e) <= 52 THEN mant(i - (NumW - e)) ELSE 0]))
        ELSE Float(bytes)

----------------------------------------------------------------------------
(* Byte arrays *)

Max(a, b) == IF a >= b THEN a ELSE b
Zeros(n) == [i \in 1..n |-> 0]

\* TypedArray.prototype.set(data, off): data copied over bytes from index off.
PutAt(bytes, off, data) ==
    SubSeq(bytes, 1, off) \o data \o SubSeq(bytes, off + Len(data) + 1, Len(bytes))

\* A Uint8Array over a buffer of the heap: buf = 0 stands for no array.
NoArr == [buf |-> 0, len |-> 0]
ArrBytes(h, arr) == SubSeq(h[arr.buf], 1, arr.len)

----------------------------------------------------------------------------
(* encoding.ts: the state an encode call runs on.  heap holds every buffer
   that has been allocated; buffer, view and offset are the module's
   variables (view names the buffer the DataView is over); err is the
   exception in flight, ret the array last returned, glen the global
   `length`, reg the encode registry, log what nested calls did. *)

U32_CAP == Pow2(32)

Throw(es, e) == [es EXCEPT !.err = e]

rangeError(es, msg) == Throw(es, "RangeError: [msgpack-es] cannot encode: " \o msg)

resizeEncodingBuffer(es, newSize) ==
    LET id == Len(es.heap) + 1
    IN  [es EXCEPT !.heap = Append(@, Zeros(newSize)), !.buffer = id, !.view = id]

\* growIfNeeded as it would be were the buffer only ever doubled.
growByDoubling(es, bytesToEncode) ==
    LET need == es.offset + bytesToEncode
        old  == es.heap[es.buffer]
    IN  IF need > Len(old)
        THEN LET r == resizeEncodingBuffer(es, Len(old) * 2)
             IN  [r EXCEPT !.heap[r.buffer] = PutAt(@, 0, old)]
        ELSE es

growIfNeeded(es, bytesToEncode) ==
    LET need == es.offset + bytesToEncode
        old  == es.heap[es.buffer]
    IN  IF need > Len(old)
        THEN LET r == resizeEncodingBuffer(es, Max(Len(old) * 2, need))
             IN  [r EXCEPT !.heap[r.buffer] = PutAt(@, 0, old)]
        ELSE es

\* view.setUint8 / setUint16 / ... at offset, the offset advanced past them;
\* the DataView throws where the bytes do not fit.
viewSet(es, bytes) ==
    IF es.offset + Len(bytes) > Len(es.heap[es.view])
    THEN Throw(es, "RangeError: Offset is outside the bounds of the DataView")
    ELSE [es EXCEPT !.heap[es.view] = PutAt(@, es.offset, bytes), !.offset = @ + Len(bytes)]

\* buffer[offset++] = b and buffer.set(data, offset); offset += data.length;
\* set throws where the data does not fit.
bufferSet(es, bytes) ==
    IF es.err # "" THEN es
    ELSE IF es.offset + Len(bytes) > Len(es.heap[es.buffer])
    THEN Throw(es, "RangeError: offset is out of bounds")
    ELSE [es EXCEPT !.heap[es.buffer] = PutAt(@, es.offset, bytes), !.offset = @ + Len(bytes)]

\* writeNil as it would be with the byte 0xc1, which decode never reads as nil.
writeNeverUsed(es) == viewSet(growIfNeeded(es, 1), <<193>>)

writeNil(es) == viewSet(growIfNeeded(es, 1), <<192>>)

writeBool(es, value) == viewSet(growIfNeeded(es, 1), <<IF value THEN 195 ELSE 194>>)

\* unsafeWriteInt as it would be with `value <= U32_CAP` for its uint 32 test.
unsafeIntBytesUpTo(value) ==
    IF ~value.neg THEN
        IF Lt(value.mag, NatOf(128)) THEN ToBytes(value, 1)
        ELSE IF Lt(value.mag, NatOf(256)) THEN <<204>> \o ToBytes(value, 1)
        ELSE IF Lt(value.mag, NatOf(65536)) THEN <<205>> \o ToBytes(value, 2)
        ELSE IF Le(value.mag, U32_CAP) THEN <<206>> \o ToBytes(value, 4)
        ELSE <<207>>
             \o SubSeq(value.mag, NumBytes - 7, NumBytes - 4)
             \o ToBytes(value, 4)
    ELSE IF Le(value.mag, NatOf(32)) THEN ToBytes(value, 1)
    ELSE IF Le(value.mag, NatOf(256)) THEN <<208>> \o ToBytes(value, 1)
    ELSE IF Le(value.mag, NatOf(65536)) THEN <<209>> \o ToBytes(value, 2)
    ELSE IF Le(value.mag, U32_CAP) THEN <<210>> \o ToBytes(value, 4)
    ELSE <<203>> \o F64Bytes(value)

\* The bytes unsafeWriteInt writes for an integral number (each branch grows
\* the buffer by exactly their count).
unsafeIntBytes(value) ==
    IF ~value.neg THEN
        IF Lt(value.mag, NatOf(128)) THEN ToBytes(value, 1)
        ELSE IF Lt(value.mag, NatOf(256)) THEN <<204>> \o ToBytes(value, 1)
        ELSE IF Lt(value.mag, NatOf(65536)) THEN <<205>> \o ToBytes(value, 2)
        ELSE IF Lt(value.mag, U32_CAP) THEN <<206>> \o ToBytes(value, 4)
        ELSE <<207>>
             \o SubSeq(value.mag, NumBytes - 7, NumBytes - 4)
             \o ToBytes(value, 4)
    ELSE IF Le(value.mag, NatOf(32)) THEN ToBytes(value, 1)
    ELSE IF Le(value.mag, NatOf(256)) THEN <<208>> \o ToBytes(value, 1)
    ELSE IF Le(value.mag, NatOf(65536)) THEN <<209>> \o ToBytes(value, 2)
    ELSE IF Le(value.mag, U32_CAP) THEN <<210>> \o ToBytes(value, 4)
    ELSE <<203>> \o F64Bytes(value)

\* growIfNeeded(n) and the n bytes stored through the DataView.
viewWrite(es, bytes) == viewSet(growIfNeeded(es, Len(bytes)), bytes)

\* A header written, or the error thrown in its place.
writeHeader(es, h) == IF h.err # "" THEN Throw(es, h.err) ELSE viewWrite(es, h.bytes)

unsafeWriteInt(es, value) == viewWrite(es, unsafeIntBytes(value))

isSafeInteger(value) == value.t = "number" /\ Lt(value.mag, Pow2(53))

writeNumber(es, value) ==
    IF isSafeInteger(value) THEN unsafeWriteInt(es, value)
    ELSE viewWrite(es, <<203>> \o (IF value.t = "float" THEN value.bytes ELSE F64Bytes(value)))

writeBigInt(es, value) ==
    IF Lt(value.mag, Pow2(53)) THEN unsafeWriteInt(es, Num(value.neg, value.mag))
    ELSE IF value.neg /\ Le(Pow2(63), value.mag) THEN rangeError(es, "BigInt is <= -2^63")
    ELSE IF ~value.neg /\ Le(Pow2(64), value.mag) THEN rangeError(es, "BigInt is >= 2^64")
    ELSE viewWrite(es, <<IF value.neg THEN 211 ELSE 207>> \o ToBytes(value, 8))

Header(bytes) == [err |-> "", bytes |-> bytes]
HeaderErr(e) == [err |-> e, bytes |-> <<>>]

\* The tag and length writeBytes puts before data of n bytes.  Its third test
\* reads the global `length`, not data.length: glen is that global, which an
\* ECMAScript host may not define at all.
writeBytesHeader(n, oneByteLenSeqIdentifier, twoByteLenSeqIdentifier, fourByteLenSeqIdentifier, glen) ==
    IF Lt(n, NatOf(256)) THEN Header(<<oneByteLenSeqIdentifier>> \o LowBytes(n, 1))
    ELSE IF Lt(n, NatOf(65536)) THEN Header(<<twoByteLenSeqIdentifier>> \o LowBytes(n, 2))
    ELSE IF ~glen.defined THEN HeaderErr("ReferenceError: length is not defined")
    ELSE IF Lt(glen.value, U32_CAP) THEN Header(<<fourByteLenSeqIdentifier>> \o LowBytes(n, 4))
    ELSE HeaderErr("RangeError: [msgpack-es] cannot encode: binary/string length >= 2^32")

\* The header, then buffer.set(data, offset); the buffer is grown for both.
writeAfterHeader(es, h, data) ==
    IF h.err # "" THEN Throw(es, h.err)
    ELSE bufferSet(viewSet(growIfNeeded(es, Len(h.bytes) + Len(data)), h.bytes), data)

writeBytes(es, data, oneByteLenSeqIdentifier, twoByteLenSeqIdentifier, fourByteLenSeqIdentifier) ==
    writeAfterHeader(es, writeBytesHeader(NatOf(Len(data)), oneByteLenSeqIdentifier,
                                          twoByteLenSeqIdentifier, fourByteLenSeqIdentifier, es.glen),
                     data)

\* TextEncoder.encode: the UTF-8 bytes of a sequence of Unicode scalar values.
Utf8OfCodePoint(c) ==
    IF c < 128 THEN <<c>>
    ELSE IF c < 2048 THEN <<192 + (c \div 64), 128 + (c % 64)>>
    ELSE IF c < 65536 THEN <<224 + (c \div 4096), 128 + ((c \div 64) % 64), 128 + (c % 64)>>
    ELSE <<240 + (c \div 262144), 128 + ((c \div 4096) % 64), 128 + ((c \div 64) % 64), 128 + (c % 64)>>

RECURSIVE Utf8Encode(_)
Utf8Encode(cps) == IF cps = <<>> THEN <<>> ELSE Utf8OfCodePoint(Head(cps)) \o Utf8Encode(Tail(cps))

\* The tag (and length) writeString puts before n bytes of UTF-8.
writeStringHeader(n, glen) ==
    IF Lt(n, NatOf(32)) THEN Header(<<160 + IntOf(n)>>)
    ELSE writeBytesHeader(n, 217, 218, 219, glen)

writeUtf8(es, utf8) ==
    IF Len(utf8) < 32 THEN writeAfterHeader(es, Header(<<160 + Len(utf8)>>), utf8)
    ELSE writeBytes(es, utf8, 217, 218, 219)

writeString(es, value) == writeUtf8(es, Utf8Encode(value.cps))

writeBinary(es, value) == writeBytes(es, value.bytes, 196, 197, 198)

\* The prefix of an array of n elements.
arrayPrefix(n) ==
    IF Lt(n, NatOf(16)) THEN <<144 + IntOf(n)>>
    ELSE IF Lt(n, NatOf(65536)) THEN <<220>> \o LowBytes(n, 2)
    ELSE <<221>> \o LowBytes(n, 4)

writeArrayPrefix(es, length) == viewWrite(es, arrayPrefix(NatOf(length)))

\* The prefix of a map of n entries.
mapPrefix(n) ==
    IF Lt(n, NatOf(16)) THEN Header(<<128 + IntOf(n)>>)
    ELSE IF Lt(n, NatOf(65536)) THEN Header(<<222>> \o LowBytes(n, 2))
    ELSE IF Lt(n, U32_CAP) THEN Header(<<223>> \o LowBytes(n, 4))
    ELSE HeaderErr("RangeError: [msgpack-es] cannot encode: 2^32 or more entries in map")

writeMapPrefix(es, keyCount) == writeHeader(es, mapPrefix(NatOf(keyCount)))

\* writeExt as it would be with the ext 8 form for payloads below 256 bytes.
extHeaderExt8(type, n) ==
    IF n = NatOf(8) THEN Header(<<215, type % 256>>)
    ELSE IF Lt(n, NatOf(256)) THEN Header(<<199>> \o LowBytes(n, 1) \o <<type % 256>>)
    ELSE IF Lt(n, NatOf(65536)) THEN Header(<<200>> \o LowBytes(n, 2) \o <<type % 256>>)
    ELSE IF Lt(n, U32_CAP) THEN Header(<<201>> \o LowBytes(n, 4) \o <<type % 256>>)
    ELSE HeaderErr("RangeError: [msgpack-es] cannot encode: ext length >= 2^32")

\* The tag, length and type writeExt puts before a payload of n bytes; the
\* type is stored through the Uint8Array, which keeps it modulo 256.
extHeader(type, n) ==
    IF n = NatOf(8) THEN Header(<<215, type % 256>>)
    ELSE IF Lt(n, NatOf(65536)) THEN Header(<<200>> \o LowBytes(n, 2) \o <<type % 256>>)
    ELSE IF Lt(n, U32_CAP) THEN Header(<<201>> \o LowBytes(n, 4) \o <<type % 256>>)
    ELSE HeaderErr("RangeError: [msgpack-es] cannot encode: ext length >= 2^32")

writeExt(es, type, data) == writeAfterHeader(es, extHeader(type, NatOf(Len(data))), data)

----------------------------------------------------------------------------
(* ECMAScript values.  t is the typeof result, except that null, arrays,
   byte arrays and ES6 Maps have a t of their own; every other object has
   t = "object", its constructor and its own enumerable properties in
   insertion order. *)

Undefined == [t |-> "undefined"]
Null == [t |-> "null"]
Bool(b) == [t |-> "boolean", v |-> b]
BigInt(neg, mag) == [t |-> "bigint", neg |-> neg, mag |-> mag]
Str(cps) == [t |-> "string", cps |-> cps]
Bin(bytes) == [t |-> "Uint8Array", bytes |-> bytes]
Arr(items) == [t |-> "Array", items |-> items]
\* An index of an array that holds no element (Array.prototype.forEach skips it).
Hole == [t |-> "hole"]
Function == [t |-> "function"]
Symbol == [t |-> "symbol"]
Entry(k, v) == [k |-> k, v |-> v]
MapOf(entries) == [t |-> "Map", entries |-> entries]
New(ctor, entries) == [t |-> "object", ctor |-> ctor, entries |-> entries]
Obj(entries) == New("Object", entries)

\* data.constructor
Ctor(data) == IF data.t = "object" THEN data.ctor ELSE data.t

\* What a nested encode() or decode() call found and left: the module's
\* variables and the bytes [0, offset) of the caller's buffer.
Snap(es, at) ==
    [buffer |-> es.buffer, view |-> es.view, offset |-> es.offset,
     bytes |-> SubSeq(es.heap[at.buffer], 1, at.offset)]
Logged(before, after) ==
    [after EXCEPT !.log = Append(@, [pre |-> Snap(before, before), post |-> Snap(after, before),
                                     threw |-> after.err # ""])]

RECURSIVE recursiveEncode(_, _), encodeItems(_, _, _), encodeEntries(_, _, _),
          encodeView(_, _, _), encode(_, _, _), ExtEncodeFn(_, _, _)

\* data.forEach(recursiveEncode)
encodeItems(es, items, i) ==
    IF i > Len(items) \/ es.err # "" THEN es
    ELSE encodeItems(IF items[i].t = "hole" THEN es ELSE recursiveEncode(es, items[i]), items, i + 1)

\* validKeys.forEach(key => { recursiveEncode(key); recursiveEncode(value); })
encodeEntries(es, entries, i) ==
    IF i > Len(entries) \/ es.err # "" THEN es
    ELSE encodeEntries(recursiveEncode(recursiveEncode(es, entries[i].k), entries[i].v), entries, i + 1)

\* A Date, held by its time value: the milliseconds since the epoch.
DateValue == Str(<<91, 91, 68, 97, 116, 101, 86, 97, 108, 117, 101, 93, 93>>)
Date(ms) == New("Date", <<Entry(DateValue, ms)>>)

\* s = Math.floor(ms / 1000) and ms - s * 1000, d the quotient and remainder
\* of the magnitude of ms by 1000.
FloorSeconds(ms, d) ==
    IF ~ms.neg \/ d.r = 0 THEN [s |-> Num(ms.neg, d.q), r |-> d.r]
    ELSE [s |-> Num(TRUE, AddMag(d.q, NatOf(1))), r |-> 1000 - d.r]

\* view.setUint32(0, (ns << 2) + Math.floor(s / U32_CAP)) for ns < 2^30 and
\* s < 2^34: the bits of ns, then the two bits of s above its low 32.
NanoAndHighSeconds(ns, s) ==
    <<(ns \div 16384) \div 256, (ns \div 16384) % 256,
      ((ns % 16384) * 4 + s.mag[NumBytes - 4]) \div 256, ((ns % 16384) * 4 + s.mag[NumBytes - 4]) % 256>>

\* The bytes the encode function of the Date extension returns; p is
\* FloorSeconds of ms and ns = (ms - s * 1000) * 1e6.
dateBytes(ms, p, ns) ==
    IF ~ms.neg /\ ns = 0 /\ Lt(p.s.mag, U32_CAP) THEN LowBytes(p.s.mag, 4)
    ELSE IF ~ms.neg /\ Lt(p.s.mag, Pow2(34)) THEN NanoAndHighSeconds(ns, p.s) \o LowBytes(p.s.mag, 4)
    ELSE LowBytes(NatOf(ns), 4) \o ToBytes(Num(p.s.neg, Shr32(p.s.mag)), 4)
            \o ToBytes(Num(p.s.neg, Widen(LowBytes(p.s.mag, 4))), 4)
encodeDateParts(ms, p) == dateBytes(ms, p, p.r * 1000000)
encodeDate(ms) == encodeDateParts(ms, FloorSeconds(ms, DivSmall(ms.mag, 1000)))

\* The encode functions extensions are registered with.
\*   encodeCustomA : custom => encode(custom.valueA)
\*   encodeCustomB : custom => new Uint8Array([custom.valueB])
\*   encodePacket  : packet => packet.data
\*   encodeLength  : packet => Uint8Array.of(packet.data.length)
\*   encodeDate    : the Date extension of index.ts, on d.getTime()
\*   encodeGuarded : custom => { try { return encode(custom.value) }
\*                               catch { return new Uint8Array([0]) } }
\* nested is the encoder after the nested call of those that make one.
NewArray(es, bytes) ==
    [es EXCEPT !.heap = Append(@, bytes), !.ret = [buf |-> Len(es.heap) + 1, len |-> Len(bytes)]]

ExtEncodeReturns(fn, es, data, nested) ==
    CASE fn = "encodeCustomA" -> nested
      [] fn = "encodeCustomB" -> NewArray(es, ToBytes(data.entries[1].v, 1))
      [] fn = "encodeGuarded" ->
            IF nested.err # "" THEN NewArray([nested EXCEPT !.err = ""], <<0>>) ELSE nested
      [] fn = "encodePacket" -> NewArray(es, data.entries[1].v.bytes)
      [] fn = "encodeLength" -> NewArray(es, <<Len(data.entries[1].v.bytes) % 256>>)
      [] fn = "encodeDate" -> NewArray(es, encodeDate(data.entries[1].v))

ExtEncodeFn(fn, es, data) ==
    ExtEncodeReturns(fn, es, data, Logged(es, encode(es, data.entries[1].v, 0)))

\* writeExt(ext[0], ext[1](data)), r the encoder after ext[1](data)
writeExtOf(r, type) == IF r.err # "" THEN r ELSE writeExt(r, type, ArrBytes(r.heap, r.ret))

\* The entries of a Map and the properties of an object that are encoded.
ValidMapKey(e) == e.k.t # "function" /\ e.v.t # "function" /\ e.v.t # "undefined"
ValidObjectKey(e) == e.v.t # "undefined" /\ e.v.t # "function"

encodeMap(es, validKeys) == encodeEntries(writeMapPrefix(es, Len(validKeys)), validKeys, 1)

recursiveEncode(es, data) ==
    IF es.err # "" THEN es
    ELSE CASE data.t = "undefined" -> writeNil(es)
           [] data.t = "boolean" -> writeBool(es, data.v)
           [] data.t \in {"number", "float"} -> writeNumber(es, data)
           [] data.t = "bigint" -> writeBigInt(es, data)
           [] data.t = "string" -> writeString(es, data)
           [] data.t \in {"function", "symbol"} -> es
           [] data.t = "null" -> writeNil(es)
           [] OTHER ->
                IF Ctor(data) \in DOMAIN es.reg
                THEN writeExtOf(ExtEncodeFn(es.reg[Ctor(data)].fn, es, data), es.reg[Ctor(data)].type)
                ELSE IF data.t = "Uint8Array" THEN writeBinary(es, data)
                ELSE IF data.t = "Array"
                THEN encodeItems(writeArrayPrefix(es, Len(data.items)), data.items, 1)
                ELSE LET Valid(e) == IF data.t = "Map" THEN ValidMapKey(e) ELSE ValidObjectKey(e)
                     IN  encodeMap(es, SelectSeq(data.entries, Valid))

\* buffer.subarray(0, offset)
subarray(es) == IF es.err # "" THEN es ELSE [es EXCEPT !.ret = [buf |-> es.buffer, len |-> es.offset]]

encodeView(es, value, reserve) ==
    subarray(recursiveEncode(
        [(IF reserve > Len(es.heap[es.buffer]) THEN resizeEncodingBuffer(es, reserve) ELSE es)
            EXCEPT !.offset = 0],
        value))

\* encode() as it would be without .slice(): the array returned is the part of
\* the encoding buffer encodeView() returned.
revertWithoutSlice(es, r) ==
    IF r.err # "" THEN r
    ELSE [r EXCEPT !.buffer = es.buffer, !.view = es.view, !.offset = es.offset]

\* .slice() of the array r returned, then buffer, view and offset put back to
\* what they were in es; none of it once an error is thrown.
sliceAndRevert(es, r) ==
    IF r.err # "" THEN r
    ELSE [r EXCEPT !.heap = Append(@, ArrBytes(r.heap, r.ret)),
                   !.ret = [buf |-> Len(r.heap) + 1, len |-> r.ret.len],
                   !.buffer = es.buffer, !.view = es.view, !.offset = es.offset]

encode(es, value, reserve) == sliceAndRevert(es, encodeView(es, value, reserve))

----------------------------------------------------------------------------
(* decoding.ts *)

\* A Uint8Array handed to decode(): length bytes of the ArrayBuffer ab from
\* byteOffset on.  NoData stands for the module's variables before any call.
Data(ab, byteOffset, length) == [ab |-> ab, byteOffset |-> byteOffset, length |-> length]
NoData == Data(<<>>, 0, 0)
Own(bytes) == Data(bytes, 0, Len(bytes))
\* new DataView(buffer.buffer, buffer.byteOffset): it reaches to the end of ab.
ViewOf(data) == [ab |-> data.ab, byteOffset |-> data.byteOffset]

\* typeLookup: the Type of each leading byte.
TypeNames ==
    <<"PosFixInt", "FixMap", "FixArray", "FixString", "Nil", "NeverUsed", "False", "True",
      "Bin8", "Bin16", "Bin32", "Ext8", "Ext16", "Ext32", "Float32", "Float64",
      "Uint8", "Uint16", "Uint32", "Uint64", "Int8", "Int16", "Int32", "Int64",
      "FixExt1", "FixExt2", "FixExt4", "FixExt8", "FixExt16", "String8", "String16", "String32",
      "Array16", "Array32", "Map16", "Map32", "NegFixInt">>
\* The table as it would be were the enum without its NeverUsed member.
typeLookupWithoutNeverUsed ==
    [i \in 0..255 |->
        IF i < 128 THEN 0 ELSE IF i < 144 THEN 1 ELSE IF i < 160 THEN 2 ELSE IF i < 192 THEN 3
        ELSE IF i < 224 THEN i - 187 ELSE 36]
typeLookup ==
    [i \in 0..255 |->
        IF i < 128 THEN 0 ELSE IF i < 144 THEN 1 ELSE IF i < 160 THEN 2 ELSE IF i < 192 THEN 3
        ELSE IF i < 224 THEN i - 188 ELSE 36]
TypeOf(seqByte) == TypeNames[typeLookup[seqByte] + 1]

\* A length or count read from the input, as an integer TLC can add to the
\* offset: one of 2^30 or more stands for 2^30 (no input is that long).
CountOf(num) == IF Lt(num.mag, Pow2(30)) THEN IntOf(num.mag) ELSE 2 ^ 30

\* The n bytes the DataView holds at offset, or the RangeError it throws.
ViewRead(ds, n) ==
    LET from == ds.view.byteOffset + ds.offset
    IN  IF from + n > Len(ds.view.ab)
        THEN [ds EXCEPT !.err = "RangeError: Offset is outside the bounds of the DataView"]
        ELSE [ds EXCEPT !.ret = SubSeq(ds.view.ab, from + 1, from + n)]

Advance(ds, n) == [ds EXCEPT !.offset = @ + n]
Return(ds, value) == [ds EXCEPT !.ret = value]

\* takeUint8 and takeInt8 advance the offset before the read (offset++).
takeUint8(ds) ==
    LET r == ViewRead(ds, 1)
    IN  IF r.err # "" THEN Advance(r, 1) ELSE Advance(Return(r, UintOfBytes(r.ret)), 1)

takeUint16(ds) ==
    LET r == ViewRead(ds, 2)
    IN  IF r.err # "" THEN r ELSE Advance(Return(r, UintOfBytes(r.ret)), 2)

takeUint32(ds) ==
    LET r == ViewRead(ds, 4)
    IN  IF r.err # "" THEN r ELSE Advance(Return(r, UintOfBytes(r.ret)), 4)

takeUint64(ds) ==
    LET hi == ViewRead(ds, 4)
    IN  IF hi.err # "" THEN hi
        ELSE IF Le(Pow2(21), UintOfBytes(hi.ret).mag) THEN
            LET r == ViewRead(ds, 8)
            IN  IF r.err # "" THEN r
                ELSE Advance(Return(r, BigInt(FALSE, Widen(r.ret))), 8)
        ELSE LET lo == ViewRead(Advance(ds, 4), 4)
             IN  IF lo.err # "" THEN lo
                 ELSE Advance(Return(lo, UintOfBytes(hi.ret \o lo.ret)), 4)

takeInt8(ds) ==
    LET r == ViewRead(ds, 1)
    IN  IF r.err # "" THEN Advance(r, 1) ELSE Advance(Return(r, SintOfBytes(r.ret)), 1)

takeInt16(ds) ==
    LET r == ViewRead(ds, 2)
    IN  IF r.err # "" THEN r ELSE Advance(Return(r, SintOfBytes(r.ret)), 2)

takeInt32(ds) ==
    LET r == ViewRead(ds, 4)
    IN  IF r.err # "" THEN r ELSE Advance(Return(r, SintOfBytes(r.ret)), 4)

\* Number(value) of a BigInt: the nearest double, ties to even.
RoundToDouble(a) ==
    LET mag == BytesToBits(a)
    IN  IF a = Zero \/ NumW - Lead(mag) < 53 THEN a
        ELSE LET last  == Lead(mag) + 52
                 half  == mag[last + 1] = 1
                 below == \E i \in (last + 2)..NumW : mag[i] = 1
                 up    == half /\ (below \/ mag[last] = 1)
                 top   == IncBits([i \in 1..last |-> mag[i]])
             IN  BitsToBytes([i \in 1..NumW |->
                                IF i > last THEN 0 ELSE IF up THEN top[i] ELSE mag[i]])

takeInt64(ds) ==
    LET r == ViewRead(ds, 8)
        v == SintOfBytes(r.ret)
    IN  IF r.err # "" THEN r
        ELSE Advance(Return(r, IF v.neg \/ Lt(v.mag, Pow2(53))
                               THEN Num(v.neg, RoundToDouble(v.mag))
                               ELSE BigInt(v.neg, v.mag)), 8)

\* The double a float32 holds, as the bytes of a float64.
F32ToF64Bytes(bytes) ==
    LET bits == BytesToBits(bytes)
        e    == BitsToInt([i \in 1..8 |-> bits[i + 1]])
        m(i) == bits[9 + i]
        ones == {i \in 1..23 : m(i) = 1}
        l    == IF ones = {} THEN 0 ELSE CHOOSE i \in ones : \A j \in ones : i <= j
        e64  == IF e = 255 THEN 2047
                ELSE IF e = 0 THEN (IF ones = {} THEN 0 ELSE 1023 - 126 - l)
                ELSE e - 127 + 1023
        skip == IF e = 0 THEN l ELSE 0
    IN  BitsToBytes([i \in 1..64 |->
                        IF i = 1 THEN bits[1]
                        ELSE IF i <= 12 THEN (e64 \div (2 ^ (12 - i))) % 2
                        ELSE IF skip + (i - 12) <= 23 THEN m(skip + (i - 12)) ELSE 0])

takeFloat32(ds) ==
    LET r == ViewRead(ds, 4)
    IN  IF r.err # "" THEN r ELSE Advance(Return(r, F64Value(F32ToF64Bytes(r.ret))), 4)

takeFloat64(ds) ==
    LET r == ViewRead(ds, 8)
    IN  IF r.err # "" THEN r ELSE Advance(Return(r, F64Value(r.ret)), 8)

\* buffer.slice(start, end) and buffer.subarray(start, end): both clamp to the
\* array's own length.
Clamp(data, start, end) ==
    LET lo == IF start < data.length THEN start ELSE data.length
        hi == IF end < data.length THEN end ELSE data.length
    IN  SubSeq(data.ab, data.byteOffset + lo + 1, data.byteOffset + hi)

takeBinary(ds, length) ==
    LET start == ds.offset
        r     == Advance(ds, length)
    IN  Return(r, Bin(Clamp(ds.buffer, start, r.offset)))

\* TextDecoder("utf-8", {fatal: true}).decode: the scalar values of well-formed
\* UTF-8, a leading U+FEFF dropped; ok = FALSE where it throws.
RECURSIVE Utf8Scan(_, _)
Utf8Scan(bytes, i) ==
    LET n     == Len(bytes)
        b     == bytes[i]
        c(k)  == bytes[i + k]
        cont(k, lo, hi) == i + k <= n /\ c(k) >= lo /\ c(k) <= hi
        more(k, cp) ==
            LET rest == Utf8Scan(bytes, i + k)
            IN  [ok |-> rest.ok, cps |-> <<cp>> \o rest.cps]
        bad   == [ok |-> FALSE, cps |-> <<>>]
    IN  IF i > n THEN [ok |-> TRUE, cps |-> <<>>]
        ELSE IF b < 128 THEN more(1, b)
        ELSE IF b >= 194 /\ b <= 223 THEN
            IF cont(1, 128, 191) THEN more(2, (b - 192) * 64 + (c(1) - 128)) ELSE bad
        ELSE IF b >= 224 /\ b <= 239 THEN
            IF cont(1, IF b = 224 THEN 160 ELSE 128, IF b = 237 THEN 159 ELSE 191) /\ cont(2, 128, 191)
            THEN more(3, (b - 224) * 4096 + (c(1) - 128) * 64 + (c(2) - 128)) ELSE bad
        ELSE IF b >= 240 /\ b <= 244 THEN
            IF cont(1, IF b = 240 THEN 144 ELSE 128, IF b = 244 THEN 143 ELSE 191)
               /\ cont(2, 128, 191) /\ cont(3, 128, 191)
            THEN more(4, (b - 240) * 262144 + (c(1) - 128) * 4096 + (c(2) - 128) * 64 + (c(3) - 128))
            ELSE bad
        ELSE bad

Utf8Decode(bytes) ==
    LET r == Utf8Scan(bytes, 1)
    IN  IF r.ok /\ r.cps # <<>> /\ Head(r.cps) = 65279 THEN [r EXCEPT !.cps = Tail(@)] ELSE r

\* String(n) of an integral number: its decimal digits.
RECURSIVE Rem10(_, _)
Rem10(a, i) == IF i = 0 THEN 0 ELSE (256 * Rem10(a, i - 1) + a[i]) % 10
DivMod10(a) ==
    [q |-> [i \in 1..NumBytes |-> (256 * Rem10(a, i - 1) + a[i]) \div 10], r |-> Rem10(a, NumBytes)]

RECURSIVE Digits(_)
Digits(a) == IF a = Zero THEN <<>> ELSE LET d == DivMod10(a) IN Digits(d.q) \o <<48 + d.r>>

\* ToPropertyKey(key) for a primitive key.  The decimal text of a number that
\* is no integer is not computed: it is a text of its own, <<-1>> and the
\* bytes of the number.
KeyText(key) ==
    CASE key.t = "string" -> key.cps
      [] key.t = "undefined" -> <<117, 110, 100, 101, 102, 105, 110, 101, 100>>
      [] key.t = "boolean" -> IF key.v THEN <<116, 114, 117, 101>> ELSE <<102, 97, 108, 115, 101>>
      [] key.t \in {"number", "bigint"} ->
            (IF key.neg THEN <<45>> ELSE <<>>) \o (IF key.mag = Zero THEN <<48>> ELSE Digits(key.mag))
      [] key.t = "float" -> <<-1>> \o key.bytes

\* typeof key === "object"
TypeofObject(v) == v.t \in {"null", "Array", "Uint8Array", "Map", "object"}

\* map[key] = value on an object, map.set(key, value) on an ES6 Map: the value
\* of an entry with that key replaced, a new entry added last otherwise.  An
\* object key (a fresh object each time it is decoded) equals no other key;
\* null, though typeof null is "object", is one value.
SetEntry(entries, k, v) ==
    LET at == {i \in 1..Len(entries) : entries[i].k = k /\ (~TypeofObject(k) \/ k.t = "null")}
    IN  IF at = {} THEN Append(entries, Entry(k, v))
        ELSE [i \in 1..Len(entries) |-> IF i \in at THEN Entry(k, v) ELSE entries[i]]

\* The names of the properties the classes of the tests hold.
PropValueA == Str(<<118, 97, 108, 117, 101, 65>>)
PropValueB == Str(<<118, 97, 108, 117, 101, 66>>)
PropValue == Str(<<118, 97, 108, 117, 101>>)
PropType == Str(<<116, 121, 112, 101>>)
PropData == Str(<<100, 97, 116, 97>>)
CustomA(valueA) == New("CustomA", <<Entry(PropValueA, valueA)>>)
CustomB(valueB) == New("CustomB", <<Entry(PropValueB, valueB)>>)
Guarded(value) == New("Guarded", <<Entry(PropValue, value)>>)
Packet(data) == New("Packet", <<Entry(PropData, data)>>)
UnknownExt(type, data) == New("UnknownExt", <<Entry(PropType, type), Entry(PropData, data)>>)

DSnap(ds) == [buffer |-> ds.buffer, view |-> ds.view, offset |-> ds.offset]
DLogged(before, after) ==
    [after EXCEPT !.log = Append(@, [pre |-> DSnap(before), post |-> DSnap(after),
                                     threw |-> after.err # ""])]

\* takeString as it would be were the error of the TextDecoder thrown on.
takeStringFatal(ds, length) ==
    LET start == ds.offset
        r     == Advance(ds, length)
        utf8  == Clamp(ds.buffer, start, r.offset)
        text  == Utf8Decode(utf8)
    IN  IF text.ok THEN Return(r, Str(text.cps))
        ELSE [r EXCEPT !.err = "TypeError: The encoded data was not valid."]

takeString(ds, length) ==
    LET start == ds.offset
        r     == Advance(ds, length)
        utf8  == Clamp(ds.buffer, start, r.offset)
        text  == Utf8Decode(utf8)
    IN  IF text.ok THEN Return(r, Str(text.cps))
        ELSE IF ds.opts.badUTF8Handler = "slice" THEN Return(r, Bin(utf8))
        ELSE [r EXCEPT !.err = "Error: badUTF8Handler"]

RECURSIVE takeGeneric(_), takeArrayLoop(_, _, _, _), takeMapLoop(_, _, _, _), takeObjectLoop(_, _, _, _, _),
          takeMap(_, _, _), decode(_, _)

\* for (let i = 0; i < length; ++i) arr.push(takeGeneric())
takeArrayLoop(ds, length, i, arr) ==
    IF ds.err # "" THEN ds
    ELSE IF i >= length THEN Return(ds, Arr(arr))
    ELSE LET r == takeGeneric(ds)
         IN  takeArrayLoop(r, length, i + 1, IF r.err # "" THEN arr ELSE Append(arr, r.ret))

takeArray(ds, length) == takeArrayLoop(ds, length, 0, <<>>)

\* for (...) map.set(takeGeneric(), takeGeneric())
takeMapLoop(ds, keyCount, i, entries) ==
    IF ds.err # "" THEN ds
    ELSE IF i >= keyCount THEN Return(ds, MapOf(entries))
    ELSE LET k == takeGeneric(ds)
             v == takeGeneric(k)
         IN  takeMapLoop(v, keyCount, i + 1, IF v.err # "" THEN entries ELSE SetEntry(entries, k.ret, v.ret))

\* for (...) { key = takeGeneric(); if (typeof key === "object") { offset =
\* mapStart; return takeMap(keyCount, true) } map[key] = takeGeneric() }
takeObjectLoop(ds, keyCount, i, entries, mapStart) ==
    IF ds.err # "" THEN ds
    ELSE IF i >= keyCount THEN Return(ds, Obj(entries))
    ELSE LET k == takeGeneric(ds)
         IN  IF k.err # "" THEN k
             ELSE IF TypeofObject(k.ret) THEN takeMap([k EXCEPT !.offset = mapStart], keyCount, TRUE)
             ELSE LET v == takeGeneric(k)
                  IN  takeObjectLoop(v, keyCount, i + 1,
                                     IF v.err # "" THEN entries
                                     ELSE SetEntry(entries, Str(KeyText(k.ret)), v.ret), mapStart)

\* takeMap as it would be were every map taken into an ES6 Map.
takeMapForced(ds, keyCount, forceMap) == takeMapLoop(ds, keyCount, 0, <<>>)

\* passes notes each call of takeMap by the offset of the map's first key.
Pass(ds) == [ds EXCEPT !.passes = Append(@, ds.offset)]

takeMap(ds, keyCount, forceMap) ==
    IF forceMap THEN takeMapLoop(Pass(ds), keyCount, 0, <<>>)
    ELSE takeObjectLoop(Pass(ds), keyCount, 0, <<>>, ds.offset)

\* The decode function of the Date extension.  A payload of 12 bytes leaves
\* its case without a return and falls into the default one.
decodeDate12(ds, ms) ==
    IF Lt(ms.mag, Pow2(53))
    THEN [ds EXCEPT !.err = "RangeError: msgpack: decodeDate (ext -1): invalid data length (12)"]
    ELSE [ds EXCEPT !.err = "RangeError: msgpack: decodeDate (ext -1): timestamp exceeds safe JS integer range"]
decodeDate(ds, b) ==
    CASE Len(b) = 4 -> Return(ds, Date(Num(FALSE, MulSmall(Widen(b), 1000))))
      [] Len(b) = 8 ->
            Return(ds, Date(Num(FALSE,
                AddMag(MulSmall(Widen(<<b[4] % 4>> \o SubSeq(b, 5, 8)), 1000),
                       NatOf((((b[1] * 256 + b[2]) * 256 + b[3]) * 64 + b[4] \div 4) \div 1000000)))))
      [] Len(b) = 12 ->
            IF Le(Pow2(54), SintOfBytes(SubSeq(b, 5, 12)).mag)
            THEN [ds EXCEPT !.err = "RangeError: msgpack: decodeDate (ext -1): timestamp exceeds safe JS integer range"]
            ELSE decodeDate12(ds, AddTo(Num(SintOfBytes(SubSeq(b, 5, 12)).neg,
                                            MulSmall(SintOfBytes(SubSeq(b, 5, 12)).mag, 1000)),
                                        DivSmall(Widen(SubSeq(b, 1, 4)), 1000000).q))
      [] OTHER ->
            [ds EXCEPT !.err = "RangeError: msgpack: decodeDate (ext -1): invalid data length ("
                                    \o ToString(Len(b)) \o ")"]

\* The decode functions extensions are registered with.
\*   decodeCustomA : buffer => new CustomA(decode(buffer))
\*   decodeCustomB : buffer => new CustomB(buffer[0])
\*   decodePacket  : buffer => new Packet(buffer)
\*   decodeDate    : the Date extension of index.ts
\*   decodeGuarded : buffer => { try { return new Guarded(decode(buffer)) }
\*                               catch { return new Guarded(undefined) } }
\* nested is the decoder after the nested call of those that make one.
ExtDecodeReturns(fn, ds, data, nested) ==
    CASE fn = "decodeCustomA" -> IF nested.err # "" THEN nested ELSE Return(nested, CustomA(nested.ret))
      [] fn = "decodeCustomB" ->
            Return(ds, CustomB(IF data.bytes = <<>> THEN Undefined ELSE PosInt(data.bytes[1])))
      [] fn = "decodeGuarded" ->
            IF nested.err # "" THEN Return([nested EXCEPT !.err = ""], Guarded(Undefined))
            ELSE Return(nested, Guarded(nested.ret))
      [] fn = "decodePacket" -> Return(ds, Packet(data))
      [] fn = "decodeDate" -> decodeDate(ds, data.bytes)

ExtDecodeFn(fn, ds, data) ==
    ExtDecodeReturns(fn, ds, data, DLogged(ds, decode(ds, Own(data.bytes))))

\* decodeExt as it would be were the type the byte read, not the signed
\* number it holds.
decodeExtOfByte(type, ds, decodeFn) ==
    IF decodeFn # "" THEN ExtDecodeFn(decodeFn, ds, ds.ret)
    ELSE IF ds.opts.unknownExtHandler = "UnknownExt"
    THEN Return(ds, UnknownExt([t |-> "number", neg |-> FALSE, mag |-> Widen(ToBytes(type, 1))], ds.ret))
    ELSE [ds EXCEPT !.err = "Error: unknownExtHandler"]

\* decodeFn ? decodeFn(data) : opts.unknownExtHandler(type, data)
decodeExt(type, ds, decodeFn) ==
    IF decodeFn # "" THEN ExtDecodeFn(decodeFn, ds, ds.ret)
    ELSE IF ds.opts.unknownExtHandler = "UnknownExt" THEN Return(ds, UnknownExt(type, ds.ret))
    ELSE [ds EXCEPT !.err = "Error: unknownExtHandler"]

\* type is the decoder after takeInt8()
takeExtData(type, dataLength) ==
    IF type.err # "" THEN type
    ELSE decodeExt(type.ret, takeBinary(type, dataLength),
                   type.reg[(IF type.ret.neg THEN 0 - IntOf(type.ret.mag) ELSE IntOf(type.ret.mag)) + 128])

takeExt(ds, dataLength) == takeExtData(takeInt8(ds), dataLength)

\* The switch of takeGeneric, b the decoder after takeUint8().
takeSeq(b, seqByte, seqType) ==
    LET \* f(g()): g reads the length, f takes that many.
        Then(len, Take(_, _)) == IF len.err # "" THEN len ELSE Take(len, CountOf(len.ret))
        TakeMap(d, n) == takeMap(d, n, d.opts.forceES6Map)
    IN  CASE seqType = "PosFixInt" -> Return(b, PosInt(seqByte))
          [] seqType = "FixMap" -> TakeMap(b, seqByte % 16)
          [] seqType = "FixArray" -> takeArray(b, seqByte % 16)
          [] seqType = "FixString" -> takeString(b, seqByte % 32)
          [] seqType = "Nil" -> Return(b, b.opts.nilValue)
          [] seqType = "NeverUsed" -> Return(b, Undefined)
          [] seqType = "False" -> Return(b, Bool(FALSE))
          [] seqType = "True" -> Return(b, Bool(TRUE))
          [] seqType = "Bin8" -> Then(takeUint8(b), takeBinary)
          [] seqType = "Bin16" -> Then(takeUint16(b), takeBinary)
          [] seqType = "Bin32" -> Then(takeUint32(b), takeBinary)
          [] seqType = "Ext8" -> Then(takeUint8(b), takeExt)
          [] seqType = "Ext16" -> Then(takeUint16(b), takeExt)
          [] seqType = "Ext32" -> Then(takeUint32(b), takeExt)
          [] seqType = "Float32" -> takeFloat32(b)
          [] seqType = "Float64" -> takeFloat64(b)
          [] seqType = "Uint8" -> takeUint8(b)
          [] seqType = "Uint16" -> takeUint16(b)
          [] seqType = "Uint32" -> takeUint32(b)
          [] seqType = "Uint64" -> takeUint64(b)
          [] seqType = "Int8" -> takeInt8(b)
          [] seqType = "Int16" -> takeInt16(b)
          [] seqType = "Int32" -> takeInt32(b)
          [] seqType = "Int64" -> takeInt64(b)
          [] seqType = "FixExt1" -> takeExt(b, 1)
          [] seqType = "FixExt2" -> takeExt(b, 2)
          [] seqType = "FixExt4" -> takeExt(b, 4)
          [] seqType = "FixExt8" -> takeExt(b, 8)
          [] seqType = "FixExt16" -> takeExt(b, 16)
          [] seqType = "String8" -> Then(takeUint8(b), takeString)
          [] seqType = "String16" -> Then(takeUint16(b), takeString)
          [] seqType = "String32" -> Then(takeUint32(b), takeString)
          [] seqType = "Array16" -> Then(takeUint16(b), takeArray)
          [] seqType = "Array32" -> Then(takeUint32(b), takeArray)
          [] seqType = "Map16" -> Then(takeUint16(b), TakeMap)
          [] seqType = "Map32" -> Then(takeUint32(b), TakeMap)
          [] seqType = "NegFixInt" -> Return(b, NegInt(256 - seqByte))

takeByte(b) == IF b.err # "" THEN b ELSE takeSeq(b, IntOf(b.ret.mag), TypeOf(IntOf(b.ret.mag)))

takeGeneric(ds) == IF ds.err # "" THEN ds ELSE takeByte(takeUint8(ds))

\* buffer, view and offset put back to what they were in ds; not once an
\* error is thrown.
revert(ds, r) ==
    IF r.err # "" THEN r ELSE [r EXCEPT !.buffer = ds.buffer, !.view = ds.view, !.offset = ds.offset]

decode(ds, data) ==
    revert(ds, takeGeneric([ds EXCEPT !.buffer = data, !.view = ViewOf(data), !.offset = 0]))

----------------------------------------------------------------------------
(* The program as a state machine.  One action is one call of an exported
   function by the application, nested calls included. *)

VARIABLES
    heap,           \* the byte buffers that are reachable, by reference
    buffer,         \* encoding.ts: let buffer
    view,           \* encoding.ts: let view (the buffer its DataView is over)
    offset,         \* encoding.ts: let offset
    decBuffer,      \* decoding.ts: let buffer
    decView,        \* decoding.ts: let view
    decOffset,      \* decoding.ts: let offset
    opts,           \* decoding.ts: DECODE_OPTS
    extEncoders,    \* extensions.ts: constructor -> [type, fn]
    extDecoders,    \* extensions.ts: the decode function at index type + 128
    globalLength,   \* the host's global `length`, which writeBytes reads
    arg,            \* the value the application encodes
    kept,           \* the first array encode() returned, kept by the application
    keptView,       \* the first array encodeView() returned, kept likewise
    result,         \* what the last call was given and what it returned or threw
    log,            \* what the nested calls of the last call found and left
    ncalls          \* calls made so far

vars == <<heap, buffer, view, offset, decBuffer, decView, decOffset, opts, extEncoders,
          extDecoders, globalLength, arg, kept, keptView, result, log, ncalls>>

\* Calls in one behaviour.
MaxCalls == 3

\* The capacity encoding.ts allocates when it is loaded.
InitialCapacity == 128

NoValue == [t |-> "none"]
NoKept == [arr |-> NoArr, bytes |-> <<>>, value |-> NoValue]
NoResult == [op |-> "none", err |-> "", arr |-> NoArr, bytes |-> <<>>, of |-> NoValue, ret |-> NoValue]

\* The encoder and the decoder as a call finds them.
EncState ==
    [heap |-> heap, buffer |-> buffer, view |-> view, offset |-> offset, err |-> "", ret |-> NoArr,
     glen |-> globalLength, reg |-> extEncoders, log |-> <<>>]
DecState ==
    [buffer |-> decBuffer, view |-> decView, offset |-> decOffset, err |-> "", ret |-> NoValue,
     reg |-> extDecoders, log |-> <<>>, opts |-> opts, passes |-> <<>>]

\* Buffers nothing refers to any more are collected: the reachable ones keep
\* their order and are renumbered from 1.
Rank(ids, id) == IF id = 0 THEN 0 ELSE Cardinality({j \in ids : j <= id})
Collect(h, ids) == [k \in 1..Cardinality(ids) |-> h[CHOOSE id \in ids : Rank(ids, id) = k]]

\* The encoder's variables after a call that left es, the application keeping
\* the arrays k and kv.
EncoderBecomes(es, k, kv, res) ==
    LET ids == {es.buffer, es.view, k.arr.buf, kv.arr.buf, res.arr.buf} \ {0}
    IN  /\ heap' = Collect(es.heap, ids)
        /\ buffer' = Rank(ids, es.buffer)
        /\ view' = Rank(ids, es.view)
        /\ offset' = es.offset
        /\ kept' = [k EXCEPT !.arr.buf = Rank(ids, @)]
        /\ keptView' = [kv EXCEPT !.arr.buf = Rank(ids, @)]
        /\ result' = [res EXCEPT !.arr.buf = Rank(ids, @)]
        /\ log' = es.log
        /\ ncalls' = ncalls + 1

Keep(k, es, value) ==
    IF k.arr = NoArr THEN [arr |-> es.ret, bytes |-> ArrBytes(es.heap, es.ret), value |-> value] ELSE k

Returned(op, es, value) ==
    IF es.err # "" THEN [NoResult EXCEPT !.op = op, !.err = es.err, !.of = value]
    ELSE [NoResult EXCEPT !.op = op, !.arr = es.ret, !.bytes = ArrBytes(es.heap, es.ret), !.of = value]

\* The application gets what encode() returned and keeps the first array.
EncodeReturns(es, value) ==
    EncoderBecomes(es, IF es.err = "" THEN Keep(kept, es, value) ELSE kept, keptView,
                   [Returned("encode", es, value) EXCEPT !.arr = NoArr])

\* encode(value, reserve)
Encode(value, reserve) ==
    /\ ncalls < MaxCalls
    /\ EncodeReturns(encode(EncState, value, reserve), value)
    /\ arg' = value
    /\ UNCHANGED <<decBuffer, decView, decOffset, opts, extEncoders, extDecoders, globalLength>>

EncodeViewReturns(es, value) ==
    EncoderBecomes(es, kept, IF es.err = "" THEN Keep(keptView, es, value) ELSE keptView,
                   Returned("encodeView", es, value))

\* encodeView(value, reserve)
EncodeView(value, reserve) ==
    /\ ncalls < MaxCalls
    /\ EncodeViewReturns(encodeView(EncState, value, reserve), value)
    /\ arg' = value
    /\ UNCHANGED <<decBuffer, decView, decOffset, opts, extEncoders, extDecoders, globalLength>>

\* resizeEncodingBuffer(newSize)
ResizeEncodingBuffer(newSize) ==
    /\ ncalls < MaxCalls
    /\ EncoderBecomes(resizeEncodingBuffer(EncState, newSize), kept, keptView,
                      [NoResult EXCEPT !.op = "resizeEncodingBuffer"])
    /\ UNCHANGED <<decBuffer, decView, decOffset, opts, extEncoders, extDecoders, globalLength, arg>>

DecodeReturns(ds, data, of) ==
    /\ decBuffer' = ds.buffer
    /\ decView' = ds.view
    /\ decOffset' = ds.offset
    /\ log' = ds.log
    /\ result' = [NoResult EXCEPT !.op = "decode", !.err = ds.err, !.of = of,
                                  !.bytes = SubSeq(data.ab, data.byteOffset + 1,
                                                   data.byteOffset + data.length),
                                  !.ret = IF ds.err = "" THEN ds.ret ELSE NoValue]

\* decode(data), data encoding the value `of` where the application knows it.
Decode(data, of) ==
    /\ ncalls < MaxCalls
    /\ DecodeReturns(decode(DecState, data), data, of)
    /\ ncalls' = ncalls + 1
    /\ UNCHANGED <<heap, buffer, view, offset, opts, extEncoders, extDecoders, globalLength, arg,
                   kept, keptView>>

\* decode(encode(value)): the copy has an ArrayBuffer of its own.
DecodeKept ==
    /\ kept.arr # NoArr
    /\ Decode(Own(ArrBytes(heap, kept.arr)), kept.value)

\* decode(encodeView(value)) at some later time: the array is a part of the
\* encoding buffer, which may have been written again since.
DecodeView ==
    /\ keptView.arr # NoArr
    /\ Decode(Data(heap[keptView.arr.buf], 0, keptView.arr.len),
              IF ArrBytes(heap, keptView.arr) = keptView.bytes THEN keptView.value ELSE NoValue)

\* decode(data) of bytes received from elsewhere.
DecodeWire(data) == Decode(data, NoValue)

\* registerExtension as it would be were the decode function not installed.
RegisterEncoderOnly(msgpackID, ctor, encodeFn, decodeFn) ==
    /\ ncalls < MaxCalls
    /\ extEncoders' = (ctor :> [type |-> msgpackID, fn |-> encodeFn]) @@ extEncoders
    /\ result' = [NoResult EXCEPT !.op = "registerExtension"]
    /\ log' = <<>>
    /\ ncalls' = ncalls + 1
    /\ UNCHANGED <<heap, buffer, view, offset, decBuffer, decView, decOffset, opts, globalLength,
                   arg, kept, keptView, extDecoders>>

\* registerExtension(msgpackID, ctor, encode, decode)
RegisterExtension(msgpackID, ctor, encodeFn, decodeFn) ==
    /\ ncalls < MaxCalls
    /\ extEncoders' = (ctor :> [type |-> msgpackID, fn |-> encodeFn]) @@ extEncoders
    /\ extDecoders' = [extDecoders EXCEPT ![msgpackID + 128] = decodeFn]
    /\ result' = [NoResult EXCEPT !.op = "registerExtension"]
    /\ log' = <<>>
    /\ ncalls' = ncalls + 1
    /\ UNCHANGED <<heap, buffer, view, offset, decBuffer, decView, decOffset, opts, globalLength,
                   arg, kept, keptView>>

\* DECODE_OPTS.nilValue = value; DECODE_OPTS.forceES6Map = value
SetOption(name, value) ==
    /\ ncalls < MaxCalls
    /\ opts' = [opts EXCEPT ![name] = value]
    /\ opts' # opts
    /\ result' = [NoResult EXCEPT !.op = "setOption"]
    /\ log' = <<>>
    /\ ncalls' = ncalls + 1
    /\ UNCHANGED <<heap, buffer, view, offset, decBuffer, decView, decOffset, extEncoders,
                   extDecoders, globalLength, arg, kept, keptView>>

DefaultOpts ==
    [nilValue |-> Undefined, forceES6Map |-> FALSE, badUTF8Handler |-> "slice",
     unknownExtHandler |-> "UnknownExt"]

\* The Date extension (-1) index.ts registers.
DateExtension == [msgpackID |-> 0 - 1, ctor |-> "Date", encode |-> "encodeDate", decode |-> "decodeDate"]

\* The registry after registerExtension for each of exts (no two of them with
\* the same constructor or type).
EncodersOf(exts) ==
    [c \in {e.ctor : e \in exts} |->
        LET e == CHOOSE x \in exts : x.ctor = c IN [type |-> e.msgpackID, fn |-> e.encode]]
DecodersOf(exts) ==
    [i \in 0..255 |->
        IF \E e \in exts : e.msgpackID + 128 = i
        THEN (CHOOSE e \in exts : e.msgpackID + 128 = i).decode ELSE ""]

\* The module once loaded: a zeroed buffer of 128 bytes, the decoder's
\* variables not yet assigned (held as the empty array and 0: no call reads
\* them before it assigns them), the Date extension registered.  The host
\* defines a global `length` (a browser's window.length, 0 without frames) or
\* defines none.  The application has registered exts, set the options o and
\* holds the value it will encode.
Loaded(value, exts, o) ==
    /\ heap = <<Zeros(InitialCapacity)>>
    /\ buffer = 1
    /\ view = 1
    /\ offset = 0
    /\ decBuffer = NoData
    /\ decView = ViewOf(NoData)
    /\ decOffset = 0
    /\ opts = o
    /\ extEncoders = EncodersOf(exts \cup {DateExtension})
    /\ extDecoders = DecodersOf(exts \cup {DateExtension})
    /\ globalLength \in {[defined |-> FALSE, value |-> Zero], [defined |-> TRUE, value |-> Zero]}
    /\ arg = value
    /\ kept = NoKept
    /\ keptView = NoKept
    /\ result = NoResult
    /\ log = <<>>
    /\ ncalls = 0

Init == Loaded(NoValue, {}, DefaultOpts)

----------------------------------------------------------------------------
(* What the application does: the extensions it registers, the values it
   encodes, the bytes it receives. *)

\* The extensions of general.test.ts, and one whose functions catch the error
\* of their nested call.
Extensions ==
    {[msgpackID |-> 1, ctor |-> "CustomA", encode |-> "encodeCustomA", decode |-> "decodeCustomA"],
     [msgpackID |-> 2, ctor |-> "CustomB", encode |-> "encodeCustomB", decode |-> "decodeCustomB"],
     [msgpackID |-> 3, ctor |-> "Guarded", encode |-> "encodeGuarded", decode |-> "decodeGuarded"]}

\* "a", "b", "c" and "a" followed by the euro sign.
TextA == Str(<<97>>)
TextB == Str(<<98>>)
TextC == Str(<<99>>)
TextEuro == Str(<<97, 8364>>)

\* 1.5 as a float64.
OneAndAHalf == Float(<<63, 248, 0, 0, 0, 0, 0, 0>>)

Nested == CustomA(CustomB(PosInt(0)))

\* The values of the full state machine.
Values == {PosInt(5), TextEuro, Arr(<<PosInt(5), TextA>>), Nested}

\* Bytes received: encode(Nested); [5, CustomA(5)]; an array of a Guarded
\* value whose payload is a bin 8 cut short, and 7; a CustomA value whose
\* payload is cut short likewise.
Wire ==
    {<<200, 0, 5, 1, 200, 0, 1, 2, 0>>,
     <<146, 5, 212, 1, 5>>,
     <<146, 212, 3, 196, 7>>,
     <<212, 1, 196>>}

\* A reserve hint above the initial capacity, and a size to shrink the buffer to.
ReserveHint == 130
SmallSize == 2

Next ==
    \/ \E e \in Extensions : RegisterExtension(e.msgpackID, e.ctor, e.encode, e.decode)
    \/ \E v \in {Undefined, Null} : SetOption("nilValue", v)
    \/ \E b \in BOOLEAN : SetOption("forceES6Map", b)
    \/ \E v \in Values, reserve \in {0, ReserveHint} : Encode(v, reserve)
    \/ \E v \in Values, reserve \in {0, ReserveHint} : EncodeView(v, reserve)
    \/ ResizeEncodingBuffer(SmallSize)
    \/ DecodeKept
    \/ DecodeView
    \/ \E w \in Wire : DecodeWire(Own(w))

Spec == Init /\ [][Next]_vars

----------------------------------------------------------------------------
(* One value encoded and decoded, by an application that has registered the
   extensions and set the options: every supported kind of value, values
   that are not supported, extension values whose functions call encode()
   and decode(), and bytes received from elsewhere. *)

TextName == Str(<<110, 97, 109, 101>>)
TextSam == Str(<<83, 97, 109>>)
TextAge == Str(<<97, 103, 101>>)

TooBig == BigInt(FALSE, Pow2(64))

Inputs ==
    {Undefined, Null, Bool(FALSE), Bool(TRUE), PosInt(5), PosInt(324), NegInt(5), NegInt(200),
     OneAndAHalf, TextEuro, Bin(<<1, 2>>), TooBig,
     Arr(<<PosInt(324), Bool(FALSE), OneAndAHalf, TextA, Obj(<<Entry(TextA, TextB), Entry(TextB, Undefined)>>)>>),
     Arr(<<PosInt(5), Function, TextA>>),
     Arr(<<PosInt(5), Symbol>>),
     Arr(<<PosInt(5), Hole, TextA>>),
     Obj(<<Entry(TextName, TextSam), Entry(TextAge, PosInt(69))>>),
     Obj(<<Entry(TextA, Bool(FALSE)), Entry(TextB, Undefined), Entry(TextC, Null)>>),
     Obj(<<Entry(TextA, Symbol), Entry(TextB, Undefined), Entry(TextC, Null)>>),
     Obj(<<Entry(TextA, Function), Entry(TextB, PosInt(1))>>),
     MapOf(<<Entry(Obj(<<Entry(TextA, TextB)>>), TextC), Entry(PosInt(41), TextA)>>),
     MapOf(<<Entry(TextA, Undefined), Entry(TextB, PosInt(1)), Entry(TextC, Symbol)>>),
     Nested,
     CustomA(CustomA(CustomB(PosInt(7)))),
     Arr(<<PosInt(5), Nested>>),
     Obj(<<Entry(TextA, Nested)>>),
     Guarded(PosInt(1)),
     Arr(<<PosInt(5), Guarded(PosInt(1)), PosInt(7)>>),
     Arr(<<PosInt(5), Guarded(TooBig), PosInt(7)>>),
     Arr(<<PosInt(5), CustomA(TooBig)>>)}

AllOpts ==
    {[DefaultOpts EXCEPT !.nilValue = n, !.forceES6Map = f] : n \in {Undefined, Null}, f \in BOOLEAN}

InitValues == \E v \in Inputs, o \in AllOpts : Loaded(v, Extensions, o)

NextValues ==
    \/ Encode(arg, 0)
    \/ EncodeView(arg, 0)
    \/ DecodeKept
    \/ DecodeView
    \/ \E w \in Wire : DecodeWire(Own(w))

SpecValues == InitValues /\ [][NextValues]_vars

----------------------------------------------------------------------------
(* One integer encoded and decoded: the integers on either side of every
   width boundary of unsafeWriteInt, of both signs, up to the safe ones. *)

\* a + 1 and a - 1 on magnitudes (a - 1 of a > 0).
Plus1(a) == BitsToBytes(IncBits(BytesToBits(a)))
Less1(a) == [i \in 1..NumBytes |-> 255 - NegBytes(a)[i]]

Boundaries ==
    {NatOf(32), NatOf(128), NatOf(256), NatOf(32768), NatOf(65536), Pow2(31), Pow2(32)}

Magnitudes ==
    {Zero, NatOf(1), NatOf(200), NatOf(40000), Less1(Pow2(53))}
        \cup Boundaries \cup {Less1(b) : b \in Boundaries} \cup {Plus1(b) : b \in Boundaries}

SafeIntegers == {Num(neg, mag) : neg \in BOOLEAN, mag \in Magnitudes}

InitInt == \E v \in SafeIntegers : Loaded(v, {}, DefaultOpts)

NextInt ==
    \/ Encode(arg, 0)
    \/ EncodeView(arg, 0)
    \/ DecodeKept
    \/ DecodeView

SpecInt == InitInt /\ [][NextInt]_vars

----------------------------------------------------------------------------
(* The prefix of one text, byte buffer, array or map of a given size: the
   sizes on either side of every boundary of the prefix widths, which are too
   large to encode element by element. *)

Sized(kind, size) == [t |-> "sized", kind |-> kind, size |-> size]

Kinds == {"string", "Uint8Array", "Array", "Map"}

Sizes ==
    {Zero, NatOf(1), NatOf(15), NatOf(16), NatOf(17), NatOf(31), NatOf(32), NatOf(33), NatOf(255),
     NatOf(256), NatOf(257), NatOf(65535), NatOf(65536), NatOf(65537), Less1(Pow2(32))}

\* What writeString, writeBinary, writeArrayPrefix and writeMapPrefix write
\* before the payload of a value of n bytes, elements or entries.
prefixOf(kind, n, glen) ==
    CASE kind = "string" -> writeStringHeader(n, glen)
      [] kind = "Uint8Array" -> writeBytesHeader(n, 196, 197, 198, glen)
      [] kind = "Array" -> Header(arrayPrefix(n))
      [] kind = "Map" -> mapPrefix(n)

PrefixReturns(h) ==
    result' = [NoResult EXCEPT !.op = "prefix", !.err = h.err, !.bytes = h.bytes, !.of = arg]

\* The prefix encode() writes for the value the application holds.
WritePrefix ==
    /\ ncalls < MaxCalls
    /\ arg.t = "sized"
    /\ PrefixReturns(prefixOf(arg.kind, arg.size, globalLength))
    /\ ncalls' = ncalls + 1
    /\ UNCHANGED <<heap, buffer, view, offset, decBuffer, decView, decOffset, opts, extEncoders,
                   extDecoders, globalLength, arg, kept, keptView, log>>

InitPrefix == \E kind \in Kinds, size \in Sizes : Loaded(Sized(kind, size), {}, DefaultOpts)

NextPrefix == WritePrefix

SpecPrefix == InitPrefix /\ [][NextPrefix]_vars

----------------------------------------------------------------------------
(* Values that hold null and undefined at the top, in arrays, as values and
   as keys of objects and Maps and inside an extension value, encoded and
   decoded while the application changes nilValue. *)

NilInputs ==
    {Undefined, Null,
     Arr(<<Null, Arr(<<Undefined, PosInt(1)>>)>>),
     Obj(<<Entry(TextA, Null), Entry(TextB, Arr(<<Null>>)), Entry(TextC, Undefined)>>),
     MapOf(<<Entry(TextA, Null), Entry(Obj(<<Entry(TextA, Null)>>), Null)>>),
     MapOf(<<Entry(Undefined, PosInt(1))>>),
     MapOf(<<Entry(Null, Null), Entry(TextA, PosInt(1))>>),
     CustomA(Null),
     Arr(<<PosInt(1), TextA>>)}

InitNil == \E v \in NilInputs, o \in AllOpts : Loaded(v, Extensions, o)

NextNil ==
    \/ Encode(arg, 0)
    \/ DecodeKept
    \/ \E v \in {Undefined, Null} : SetOption("nilValue", v)

SpecNil == InitNil /\ [][NextNil]_vars

----------------------------------------------------------------------------
(* Objects and Maps with keys of every kind, encoded and decoded while the
   application changes forceES6Map. *)

MapInputs ==
    {Obj(<<Entry(TextName, TextSam), Entry(TextAge, PosInt(69))>>),
     MapOf(<<Entry(PosInt(41), TextA), Entry(NegInt(5), Bool(TRUE)), Entry(TextB, Bool(FALSE))>>),
     MapOf(<<Entry(TextA, PosInt(1)), Entry(Obj(<<Entry(TextA, TextB)>>), TextC),
             Entry(PosInt(2), PosInt(3))>>),
     MapOf(<<Entry(Arr(<<PosInt(1)>>), TextA)>>),
     MapOf(<<Entry(Bin(<<1>>), TextA), Entry(TextA, TextB)>>),
     MapOf(<<Entry(Null, TextA), Entry(Bool(TRUE), TextB)>>),
     MapOf(<<Entry(MapOf(<<Entry(TextA, PosInt(1))>>), TextB)>>),
     MapOf(<<Entry(CustomB(PosInt(7)), TextA)>>),
     Obj(<<Entry(TextA, MapOf(<<Entry(Obj(<<Entry(TextA, TextB)>>), PosInt(1))>>)),
           Entry(TextB, Obj(<<Entry(TextC, PosInt(1))>>))>>),
     Arr(<<MapOf(<<Entry(PosInt(1), TextA)>>), MapOf(<<Entry(Arr(<<>>), TextA)>>)>>)}

InitMap == \E v \in MapInputs, o \in AllOpts : Loaded(v, Extensions, o)

NextMap ==
    \/ Encode(arg, 0)
    \/ DecodeKept
    \/ \E b \in BOOLEAN : SetOption("forceES6Map", b)

SpecMap == InitMap /\ [][NextMap]_vars

----------------------------------------------------------------------------
(* Extension values whose payload has a given size, under a positive and a
   negative type: the small ones encoded and decoded, and the header alone of
   those too large to hold. *)

PacketExtension(id) ==
    [msgpackID |-> id, ctor |-> "Packet", encode |-> "encodePacket", decode |-> "decodePacket"]

\* A payload of n bytes: 1, 2, ..., n.
Payload(n) == [i \in 1..n |-> i]

ExtSized(type, size) == [t |-> "extsized", type |-> type, size |-> size]

PacketTypes == {5, 0 - 3}
SmallPayloads == {0, 1, 2, 3, 4, 8, 16, 17}
LargePayloads == {NatOf(255), NatOf(256), NatOf(65535), NatOf(65536), Less1(Pow2(32))}

ExtHeaderReturns(h) ==
    result' = [NoResult EXCEPT !.op = "writeExt", !.err = h.err, !.bytes = h.bytes, !.of = arg]

\* What writeExt writes before the payload of the value the application holds.
WriteExtHeader ==
    /\ ncalls < MaxCalls
    /\ arg.t = "extsized"
    /\ ExtHeaderReturns(extHeader(arg.type, arg.size))
    /\ ncalls' = ncalls + 1
    /\ UNCHANGED <<heap, buffer, view, offset, decBuffer, decView, decOffset, opts, extEncoders,
                   extDecoders, globalLength, arg, kept, keptView, log>>

InitExt ==
    \E id \in PacketTypes :
        \/ \E n \in SmallPayloads : Loaded(Packet(Bin(Payload(n))), {PacketExtension(id)}, DefaultOpts)
        \/ \E size \in LargePayloads : Loaded(ExtSized(id, size), {PacketExtension(id)}, DefaultOpts)

NextExt ==
    \/ arg.t = "object" /\ Encode(arg, 0)
    \/ arg.t = "object" /\ EncodeView(arg, 0)
    \/ DecodeKept
    \/ DecodeView
    \/ WriteExtHeader

SpecExt == InitExt /\ [][NextExt]_vars

----------------------------------------------------------------------------
(* Dates through the Date extension index.ts registers: Dates encoded and
   decoded, and timestamps received from elsewhere decoded. *)

\* Times in milliseconds: the epoch, times after it with and without a part
\* of a second, those at which the seconds outgrow 32 and 34 bits, the last
\* time a Date holds, and times before the epoch down to the first.
Times ==
    {Num(FALSE, Zero),
     Num(FALSE, Widen(<<3, 232>>)),
     Num(FALSE, Widen(<<5, 220>>)),
     Num(FALSE, Widen(<<1, 154, 76, 41, 208, 123>>)),
     Num(FALSE, Widen(<<3, 231, 255, 255, 252, 24>>)),
     Num(FALSE, Widen(<<3, 232, 0, 0, 0, 0>>)),
     Num(FALSE, Widen(<<15, 159, 255, 255, 255, 255>>)),
     Num(FALSE, Widen(<<15, 160, 0, 0, 0, 0>>)),
     Num(FALSE, Widen(<<29, 143, 218, 76, 224, 0>>)),
     Num(FALSE, Widen(<<30, 178, 8, 194, 220, 0, 0>>)),
     Num(TRUE, Widen(<<1>>)),
     Num(TRUE, Widen(<<3, 232>>)),
     Num(TRUE, Widen(<<133, 152>>)),
     Num(TRUE, Widen(<<30, 178, 8, 194, 220, 0, 0>>))}

\* Payloads of 4, 8 and 12 bytes and of other lengths.
Timestamps ==
    {<<0, 0, 0, 0>>,
     <<0, 0, 0, 1>>,
     <<255, 255, 255, 255>>,
     <<0, 0, 0, 0, 0, 0, 0, 0>>,
     <<119, 53, 148, 1, 0, 0, 0, 1>>,
     <<255, 255, 255, 255, 255, 255, 255, 255>>,
     <<238, 107, 39, 252, 0, 0, 0, 0>>,
     <<0, 0, 0, 0, 0, 0, 0, 0, 0, 0, 0, 0>>,
     <<0, 0, 0, 0, 255, 255, 255, 255, 255, 255, 255, 255>>,
     <<47, 175, 8, 0, 255, 255, 255, 255, 255, 255, 255, 221>>,
     <<59, 154, 201, 255, 127, 255, 255, 255, 255, 255, 255, 255>>,
     <<255, 255, 255, 255, 0, 0, 0, 0, 0, 0, 0, 1>>,
     <<>>,
     <<0>>,
     <<0, 0, 0, 0, 0>>,
     <<0, 0, 0, 0, 0, 0, 0, 0, 0, 0, 0, 0, 0, 0, 0, 0>>}

Received(bytes) == [t |-> "received", bytes |-> bytes]

\* An extension of that type with that payload (below 256 bytes) as bytes
\* received: 0xc7, the length, the type, the payload.
ExtWire(type, payload) == <<199, Len(payload), type % 256>> \o payload

DecodeTimestamp ==
    /\ arg.t = "received"
    /\ DecodeWire(Own(ExtWire(DateExtension.msgpackID, arg.bytes)))

InitDate ==
    \/ \E ms \in Times : Loaded(Date(ms), {}, DefaultOpts)
    \/ \E bytes \in Timestamps : Loaded(Received(bytes), {}, DefaultOpts)

NextDate ==
    \/ arg.t = "object" /\ Encode(arg, 0)
    \/ arg.t = "object" /\ EncodeView(arg, 0)
    \/ DecodeKept
    \/ DecodeView
    \/ DecodeTimestamp

SpecDate == InitDate /\ [][NextDate]_vars

----------------------------------------------------------------------------
(* BigInts, at and around the ends of the safe range and of the 64-bit
   range, encoded and decoded. *)

BigMagnitudes ==
    {NatOf(1), NatOf(129), Less1(Pow2(53)), Pow2(53), Less1(Pow2(63)), Pow2(63), Plus1(Pow2(63)),
     Less1(Pow2(64)), Pow2(64), Plus1(Pow2(64))}

InitBigInt ==
    \/ Loaded(BigInt(FALSE, NatOf(0)), {}, DefaultOpts)
    \/ \E neg \in BOOLEAN, mag \in BigMagnitudes : Loaded(BigInt(neg, mag), {}, DefaultOpts)

NextBigInt ==
    \/ Encode(arg, 0)
    \/ EncodeView(arg, 0)
    \/ DecodeKept
    \/ DecodeView

SpecBigInt == InitBigInt /\ [][NextBigInt]_vars

----------------------------------------------------------------------------
(* The prefixes of texts, byte buffers, maps and extension payloads at and
   beyond the limit of 2^32. *)

LimitKinds == {"string", "Uint8Array", "Map"}

LimitSizes ==
    {NatOf(65535), NatOf(65536), Less1(Pow2(32)), Pow2(32), Plus1(Pow2(32)), Pow2(33), Less1(Pow2(53))}

InitLimit ==
    \E size \in LimitSizes :
        \/ \E kind \in LimitKinds : Loaded(Sized(kind, size), {}, DefaultOpts)
        \/ Loaded(ExtSized(DateExtension.msgpackID, size), {}, DefaultOpts)

NextLimit ==
    \/ WritePrefix
    \/ WriteExtHeader

SpecLimit == InitLimit /\ [][NextLimit]_vars

----------------------------------------------------------------------------
(* Extensions of types nothing is registered for, received in each of the
   forms the format has, alone and as the first element of an array, under
   the default unknownExtHandler and under one that throws. *)

\* The forms of an extension with a payload below 2^16 bytes: the fixed one
\* for 1, 2, 4, 8 and 16 bytes, and those with a length of 8, 16 and 32 bits.
ExtForms(type, payload) ==
    {<<199, Len(payload), type % 256>> \o payload,
     <<200, 0, Len(payload), type % 256>> \o payload,
     <<201, 0, 0, 0, Len(payload), type % 256>> \o payload}
    \cup (CASE Len(payload) = 1 -> {<<212, type % 256>> \o payload}
            [] Len(payload) = 2 -> {<<213, type % 256>> \o payload}
            [] Len(payload) = 4 -> {<<214, type % 256>> \o payload}
            [] Len(payload) = 8 -> {<<215, type % 256>> \o payload}
            [] Len(payload) = 16 -> {<<216, type % 256>> \o payload}
            [] OTHER -> {})

UnknownTypes == {5, 127, 0 - 3, 0 - 128}
UnknownPayloads == {Payload(n) : n \in {0, 1, 2, 3, 4, 8, 16}}

\* [ext, 7]
FirstOfTwo(wire) == <<146>> \o wire \o <<7>>

DecodeReceived ==
    /\ arg.t = "received"
    /\ DecodeWire(Own(arg.bytes))

InitUnknownExt ==
    \E type \in UnknownTypes, payload \in UnknownPayloads :
        \E wire \in ExtForms(type, payload) :
            \/ Loaded(Received(wire), {}, DefaultOpts)
            \/ Loaded(Received(FirstOfTwo(wire)), {}, DefaultOpts)

NextUnknownExt ==
    \/ DecodeReceived
    \/ \E handler \in {"UnknownExt", "throws"} : SetOption("unknownExtHandler", handler)

SpecUnknownExt == InitUnknownExt /\ [][NextUnknownExt]_vars

----------------------------------------------------------------------------
(* Texts whose bytes are not UTF-8, received in each of the forms the format
   has, alone and as the first element of an array, under the default
   badUTF8Handler and under one that throws. *)

\* A byte no UTF-8 has, an overlong form, a surrogate, a text cut short, a
\* stray continuation byte, a scalar value above U+10FFFF.
BadTexts ==
    {<<255>>, <<192, 128>>, <<237, 160, 128>>, <<226, 130>>, <<97, 128, 98>>, <<244, 144, 128, 128>>}

\* The forms of a text below 32 bytes: fixstr, str 8, str 16, str 32.
StrForms(utf8) ==
    {<<160 + Len(utf8)>> \o utf8, <<217, Len(utf8)>> \o utf8, <<218, 0, Len(utf8)>> \o utf8,
     <<219, 0, 0, 0, Len(utf8)>> \o utf8}

InitBadUTF8 ==
    \E utf8 \in BadTexts :
        \E wire \in StrForms(utf8) :
            \/ Loaded(Received(wire), {}, DefaultOpts)
            \/ Loaded(Received(FirstOfTwo(wire)), {}, DefaultOpts)

NextBadUTF8 ==
    \/ DecodeReceived
    \/ \E handler \in {"slice", "throws"} : SetOption("badUTF8Handler", handler)

SpecBadUTF8 == InitBadUTF8 /\ [][NextBadUTF8]_vars

----------------------------------------------------------------------------
(* An application that has registered one extension registers another, for
   a type or a class that may be taken already (by its first registration or
   by the Date extension), and then encodes an instance or decodes an
   extension it has received. *)

Registration(id, ctor, encodeFn, decodeFn) ==
    [msgpackID |-> id, ctor |-> ctor, encode |-> encodeFn, decode |-> decodeFn]

\* The classes with an encode function for them and a decode function.
Codecs ==
    {<<"Packet", "encodePacket", "decodePacket">>, <<"Packet", "encodeLength", "decodeCustomB">>,
     <<"CustomB", "encodeCustomB", "decodeCustomB">>, <<"Date", "encodeDate", "decodePacket">>}

RegisteredTypes == {0 - 128, 0 - 1, 5, 127}

Registrations == {Registration(id, c[1], c[2], c[3]) : id \in RegisteredTypes, c \in Codecs}

\* Registrations that leave the Date extension as index.ts registered it.
FirstRegistrations == {r \in Registrations : r.ctor # "Date" /\ r.msgpackID # DateExtension.msgpackID}

Instances ==
    {Packet(Bin(<<1, 2, 3>>)), Packet(Bin(Payload(8))), CustomB(PosInt(9)),
     Date(Num(FALSE, NatOf(1500)))}

ReceivedExts == {Received(ExtWire(id, Payload(4))) : id \in RegisteredTypes}

Registering(first, later, value) ==
    [t |-> "registering", first |-> first, later |-> later, value |-> value]

RegisterLater ==
    /\ ncalls = 0
    /\ RegisterExtension(arg.later.msgpackID, arg.later.ctor, arg.later.encode, arg.later.decode)

\* encode(value) of the instance the application goes on holding.
EncodeInstance ==
    /\ ncalls > 0
    /\ ncalls < MaxCalls
    /\ arg.value.t = "object"
    /\ EncodeReturns(encode(EncState, arg.value, 0), arg.value)
    /\ UNCHANGED <<arg, decBuffer, decView, decOffset, opts, extEncoders, extDecoders, globalLength>>

DecodeExtension ==
    /\ ncalls > 0
    /\ arg.value.t = "received"
    /\ DecodeWire(Own(arg.value.bytes))

InitRegister ==
    \E first \in FirstRegistrations, later \in Registrations, value \in Instances \cup ReceivedExts :
        Loaded(Registering(first, later, value), {first}, DefaultOpts)

NextRegister ==
    \/ RegisterLater
    \/ EncodeInstance
    \/ DecodeKept
    \/ DecodeExtension

SpecRegister == InitRegister /\ [][NextRegister]_vars

(* Values encoded one after another by an application that also resizes the
   encoding buffer, to nothing and to a few bytes, and passes reserve hints:
   the same value is encoded into buffers of different capacities, over the
   bytes of the values encoded before it. *)

\* A number, a text, and an array whose second element is an extension value
\* encoded with a nested encode().
Repeated == {PosInt(5), TextEuro, Arr(<<PosInt(5), Nested>>)}

\* The sizes the application resizes the buffer to.
Capacities == {0, SmallSize}

InitRepeat == Loaded(NoValue, Extensions, DefaultOpts)

NextRepeat ==
    \/ \E v \in Repeated, reserve \in {0, ReserveHint} : Encode(v, reserve)
    \/ \E v \in Repeated, reserve \in {0, ReserveHint} : EncodeView(v, reserve)
    \/ \E size \in Capacities : ResizeEncodingBuffer(size)

SpecRepeat == InitRepeat /\ [][NextRepeat]_vars

----------------------------------------------------------------------------
(* Every first byte there is, received with zero bytes after it: enough of
   them for the longest fixed form (15 pairs, 31 bytes of text), and such
   that every length field reads 0. *)

TagBody == [i \in 1..32 |-> 0]
Tagged == {Received(<<tag>> \o TagBody) : tag \in 0..255}

InitTags == \E r \in Tagged, o \in AllOpts : Loaded(r, {}, o)

NextTags == DecodeReceived

SpecTags == InitTags /\ [][NextTags]_vars

----------------------------------------------------------------------------
(* One complete value of each form, received alone and with a byte after it:
   integers, floats, text, byte buffers, extensions the application has and
   has not registered, arrays, maps, maps that are restarted as an ES6 Map
   (a key that is an array, a map or nil), one of them with such a map as its
   key, and extensions whose decode function calls decode(). *)

Message(bytes, rest) == [t |-> "message", bytes |-> bytes, rest |-> rest]

Messages ==
    {<<5>>, <<192>>, <<205, 1, 0>>, <<207, 0, 0, 0, 0, 0, 0, 1, 0>>, <<211, 255, 255, 255, 255, 255, 255, 255, 0>>,
     <<203, 63, 248, 0, 0, 0, 0, 0, 0>>,
     <<161, 97>>, <<217, 1, 97>>, <<196, 2, 1, 2>>, <<197, 0, 1, 9>>,
     <<199, 1, 5, 9>>, <<213, 7, 1, 2>>, <<214, 255, 0, 0, 0, 1>>,
     <<146, 5, 161, 97>>, <<220, 0, 1, 5>>,
     <<129, 161, 97, 5>>, <<222, 0, 1, 1, 2>>,
     <<130, 1, 2, 144, 3>>, <<129, 192, 5>>, <<129, 129, 144, 1, 2>>,
     <<130, 1, 129, 144, 2, 146, 3, 4, 5>>,
     <<212, 1, 5>>, <<212, 3, 5>>, <<212, 3, 196>>}

Trailing == {<<>>, <<7>>}

DecodeMessage ==
    /\ arg.t = "message"
    /\ DecodeWire(Own(arg.bytes \o arg.rest))

InitCursor == \E m \in Messages, rest \in Trailing, o \in AllOpts : Loaded(Message(m, rest), Extensions, o)

NextCursor == DecodeMessage

SpecCursor == InitCursor /\ [][NextCursor]_vars

----------------------------------------------------------------------------
(* The write functions of the encoder called one after another from offset
   0, as encodeView calls them, on buffers of each capacity: the one the
   module allocates, and those the application has set with
   resizeEncodingBuffer before, nothing at all among them. *)

WriteReturns(es, value) ==
    EncoderBecomes(es, kept, keptView, [NoResult EXCEPT !.op = "write", !.err = es.err, !.of = value])

Written(es, value) ==
    /\ ncalls < MaxCalls
    /\ WriteReturns(es, value)
    /\ UNCHANGED <<decBuffer, decView, decOffset, opts, extEncoders, extDecoders, globalLength, arg>>

WriteNil == Written(writeNil(EncState), Null)
WriteBool(value) == Written(writeBool(EncState, value), Bool(value))
WriteNumber(value) == Written(writeNumber(EncState, value), value)
WriteBigInt(value) == Written(writeBigInt(EncState, value), value)
WriteString(value) == Written(writeString(EncState, value), value)
WriteBinary(value) == Written(writeBinary(EncState, value), value)
WriteArrayPrefix(length) == Written(writeArrayPrefix(EncState, length), PosInt(length))
WriteMapPrefix(keyCount) == Written(writeMapPrefix(EncState, keyCount), PosInt(keyCount))
WriteExt(type, data) == Written(writeExt(EncState, type, data), Bin(data))

\* More bytes than the buffer the module allocates holds.
LongData == Bin([i \in 1..(InitialCapacity + 2) |-> 1])

InitGrow == Loaded(NoValue, {}, DefaultOpts)

NextGrow ==
    \/ \E size \in Capacities : offset = 0 /\ ResizeEncodingBuffer(size)
    \/ WriteNil
    \/ WriteBool(TRUE)
    \/ \E value \in {PosInt(200), PosInt(300), OneAndAHalf} : WriteNumber(value)
    \/ WriteBigInt(BigInt(FALSE, Pow2(63)))
    \/ WriteString(TextEuro)
    \/ \E value \in {Bin(<<1, 2, 3>>), LongData} : WriteBinary(value)
    \/ WriteArrayPrefix(16)
    \/ WriteMapPrefix(1)
    \/ WriteExt(5, <<1, 2, 3, 4, 5, 6, 7, 8>>)

SpecGrow == InitGrow /\ [][NextGrow]_vars

----------------------------------------------------------------------------
(* Maps received whose keys are objects: a map with an empty array as its
   key, such a map as the key of a map of one entry, and so on to a depth;
   such maps as values, before and after the object key of the map they are
   in; and maps with no object key. *)

MaxDepth == 4

\* d maps of one entry inside one another, each the key of the next, the
\* innermost with the key []; the values are 1 .. d.
KeyNest(d) == [i \in 1..d |-> 129] \o <<144>> \o [i \in 1..d |-> i]

Restarted ==
    {KeyNest(d) : d \in 1..MaxDepth}
        \cup {<<130, 1, 129, 144, 2, 146, 3, 4, 5>>, <<129, 144, 129, 144, 1>>,
              <<129, 1, 2>>, <<130, 161, 97, 1, 161, 98, 129, 1, 2>>}

InitRestart == \E m \in Restarted, o \in AllOpts : Loaded(Message(m, <<>>), {}, o)

NextRestart == DecodeMessage

SpecRestart == InitRestart /\ [][NextRestart]_vars

----------------------------------------------------------------------------
(* Numbers of each fixed width received in a Uint8Array that holds the whole
   encoding or only its first bytes, the array being all of its ArrayBuffer
   or a part of a larger one in which the rest of the encoding and other
   bytes follow. *)

\* A Uint8Array of length bytes at byteOffset of the ArrayBuffer ab, of which
\* the application knows that the value encoded in it takes whole bytes.
Part(ab, byteOffset, length, whole) ==
    [t |-> "part", ab |-> ab, byteOffset |-> byteOffset, length |-> length, whole |-> whole]

FixedWidth ==
    {<<204, 255>>, <<205, 1, 2>>, <<206, 1, 2, 3, 4>>, <<207, 0, 0, 0, 0, 1, 2, 3, 4>>,
     <<208, 255>>, <<209, 255, 254>>, <<210, 255, 255, 255, 254>>, <<211, 255, 255, 255, 255, 255, 255, 255, 254>>,
     <<202, 63, 192, 0, 0>>, <<203, 63, 248, 0, 0, 0, 0, 0, 0>>}

\* What the ArrayBuffer holds before and after the encoding.
Before == {<<>>, <<7, 7>>}
After == {<<>>, <<9, 9, 9, 9, 9, 9, 9, 9>>}

\* The first length bytes of m as a Uint8Array: over a buffer of its own, or
\* over the buffer that holds all of m between other bytes.
PartsOf(m, length) ==
    {Part(SubSeq(m, 1, length), 0, length, Len(m))}
        \cup {Part(b \o m \o a, Len(b), length, Len(m)) : b \in Before, a \in After}

DecodePart ==
    /\ arg.t = "part"
    /\ DecodeWire(Data(arg.ab, arg.byteOffset, arg.length))

InitPart ==
    \E m \in FixedWidth : \E length \in 1..Len(m) : \E part \in PartsOf(m, length) :
        Loaded(part, {}, DefaultOpts)

NextPart == DecodePart

SpecPart == InitPart /\ [][NextPart]_vars

----------------------------------------------------------------------------
(* Texts, byte buffers and extensions received whole and cut short: the
   header is there, with the length it declares, and the bytes after it are
   fewer than declared, none at all among them. *)

\* The header of each form for a payload of n bytes (n < 32), the byte of
\* the extension type included; 5 is a type nothing is registered for.
HeadersFor(n) ==
    {<<160 + n>>, <<217, n>>, <<218, 0, n>>, <<219, 0, 0, 0, n>>,
     <<196, n>>, <<197, 0, n>>, <<198, 0, 0, 0, n>>,
     <<199, n, 5>>, <<200, 0, n, 5>>, <<201, 0, 0, 0, n, 5>>}
        \cup (IF n \in {1, 2, 4, 8, 16} THEN {<<CHOOSE tag \in 212..216 : 2 ^ (tag - 212) = n, 5>>} ELSE {})

\* The lengths declared, and the payload of each: the letters from "a" on.
Declared == {1, 2, 4}
Letters(n) == [i \in 1..n |-> 96 + i]

\* header and the first length bytes of the payload, as a Uint8Array over a
\* buffer of its own.
Cut(header, n, length) ==
    Part(header \o SubSeq(Letters(n), 1, length), 0, Len(header) + length, Len(header) + n)

InitTruncated ==
    \E n \in Declared : \E header \in HeadersFor(n) : \E length \in 0..n :
        Loaded(Cut(header, n, length), {}, DefaultOpts)

NextTruncated == DecodePart

SpecTruncated == InitTruncated /\ [][NextTruncated]_vars

----------------------------------------------------------------------------
(* Maps received whose keys are primitives: keys that are different values
   with the same text (1 and "1", true and "true", -1 and "-1", nil and
   "undefined"), in either order, and keys with texts of their own. *)

TextUndefined == <<169, 117, 110, 100, 101, 102, 105, 110, 101, 100>>

PrimitiveKeyed ==
    {<<130, 1, 10, 161, 49, 11>>, <<130, 161, 49, 10, 1, 11>>,
     <<130, 195, 10, 164, 116, 114, 117, 101, 11>>,
     <<130, 255, 10, 162, 45, 49, 11>>,
     <<130, 192, 10>> \o TextUndefined \o <<11>>,
     <<129, 0, 10>>, <<130, 1, 10, 2, 11>>, <<130, 161, 97, 10, 161, 98, 11>>,
     <<130, 1, 10, 161, 97, 11>>, <<131, 194, 10, 195, 11, 161, 97, 12>>}

InitKeys == \E m \in PrimitiveKeyed, o \in AllOpts : Loaded(Message(m, <<>>), {}, o)

NextKeys == DecodeMessage

SpecKeys == InitKeys /\ [][NextKeys]_vars

----------------------------------------------------------------------------
(* What the properties are stated with. *)

\* An encoder and a decoder that have made no call, with the registry, the
\* options and the host of the state.
PristineEnc ==
    [heap |-> <<Zeros(InitialCapacity)>>, buffer |-> 1, view |-> 1, offset |-> 0, err |-> "",
     ret |-> NoArr, glen |-> globalLength, reg |-> extEncoders, log |-> <<>>]
PristineDec ==
    [buffer |-> NoData, view |-> ViewOf(NoData), offset |-> 0, err |-> "", ret |-> NoValue,
     reg |-> extDecoders, log |-> <<>>, opts |-> opts, passes |-> <<>>]

\* The bytes of a value encoded by itself, and the value bytes decode to.
Alone(v) == LET es == encodeView(PristineEnc, v, 0) IN ArrBytes(es.heap, es.ret)
Decoded(bytes) == decode(PristineDec, Own(bytes))

\* The values that follow one another in bytes, read one at a time; ok is
\* whether every byte belongs to a complete value.
RECURSIVE TakeAll(_, _)
TakeAll(ds, values) ==
    IF ds.err # "" THEN [ok |-> FALSE, values |-> values]
    ELSE IF ds.offset >= ds.buffer.length THEN [ok |-> ds.offset = ds.buffer.length, values |-> values]
    ELSE LET r == takeGeneric(ds) IN TakeAll(r, IF r.err = "" THEN Append(values, r.ret) ELSE values)
ValuesIn(bytes) ==
    TakeAll([PristineDec EXCEPT !.buffer = Own(bytes), !.view = ViewOf(Own(bytes))], <<>>)

IsEncode == result.op \in {"encode", "encodeView"}
Rest(bytes, prefix) == SubSeq(bytes, Len(prefix) + 1, Len(bytes))
StartsWith(bytes, prefix) == Len(bytes) >= Len(prefix) /\ SubSeq(bytes, 1, Len(prefix)) = prefix

\* The entries of an object or Map whose value is neither undefined nor a
\* function.
KeptEntries(v) == SelectSeq(v.entries, ValidObjectKey)

\* The values the round-trip law speaks of.
RECURSIVE Supported(_)
Supported(v) ==
    CASE v.t \in {"undefined", "null", "boolean", "number", "float", "string", "Uint8Array"} -> TRUE
      [] v.t = "Array" -> \A i \in DOMAIN v.items : Supported(v.items[i])
      [] v.t = "Map" ->
            /\ \E i \in DOMAIN v.entries : TypeofObject(v.entries[i].k)
            /\ \A i \in DOMAIN v.entries : Supported(v.entries[i].k) /\ Supported(v.entries[i].v)
      [] v.t = "object" ->
            /\ v.ctor \in {"Object"} \cup DOMAIN extEncoders
            /\ \A i \in DOMAIN v.entries : v.entries[i].k.t = "string" /\ Supported(v.entries[i].v)
      [] OTHER -> FALSE

\* The value equal to v that decode returns under the options o: nil for
\* null and undefined, no property for an undefined one, an ES6 Map for a
\* plain object where forceES6Map is set.
RECURSIVE Expected(_, _)
Expected(v, o) ==
    LET Entries(es) == [i \in DOMAIN es |-> Entry(Expected(es[i].k, o), Expected(es[i].v, o))]
    IN  CASE v.t \in {"undefined", "null"} -> o.nilValue
          [] v.t = "Array" -> Arr([i \in DOMAIN v.items |-> Expected(v.items[i], o)])
          [] v.t = "Map" -> MapOf(Entries(KeptEntries(v)))
          [] v.t = "object" /\ v.ctor # "Object" -> New(v.ctor, Entries(v.entries))
          [] v.t = "object" /\ v.ctor = "Object" ->
                IF o.forceES6Map THEN MapOf(Entries(KeptEntries(v))) ELSE Obj(Entries(KeptEntries(v)))
          [] OTHER -> v

RECURSIVE Concat(_)
Concat(seqs) == IF seqs = <<>> THEN <<>> ELSE Head(seqs) \o Concat(Tail(seqs))

\* The encoding of an array or plain object put together from its prefix and
\* the encodings of its parts, each encoded by itself.
Reference(v) ==
    IF v.t = "Array"
    THEN arrayPrefix(NatOf(Len(v.items))) \o Concat([i \in DOMAIN v.items |-> Alone(v.items[i])])
    ELSE IF v.t = "object" /\ v.ctor = "Object"
    THEN mapPrefix(NatOf(Len(KeptEntries(v)))).bytes
         \o Concat([i \in DOMAIN KeptEntries(v) |->
                        Alone(KeptEntries(v)[i].k) \o Alone(KeptEntries(v)[i].v)])
    ELSE Alone(v)

NestedCalls == DOMAIN log
AllReturned == log # <<>> /\ \A i \in NestedCalls : ~log[i].threw
Reverted(call) ==
    /\ call.post.buffer = call.pre.buffer
    /\ call.post.view = call.pre.view
    /\ call.post.offset = call.pre.offset

----------------------------------------------------------------------------
(* The properties. *)

\* C1: the round-trip law.  For every supported value v, decode(encode(v))
\* returns without an error a value equal to v under the nilValue and
\* forceES6Map options in effect.
RoundTripLaw ==
    (result.op = "decode" /\ result.of # NoValue /\ Supported(result.of))
        => (result.err = "" /\ result.ret = Expected(result.of, opts))

\* C2: nested calls are handled.  When every nested encode() or decode() of
\* a call has returned, each of them left buffer, view and offset exactly as
\* it found them, and the outer call completes with the correct result: the
\* bytes returned decode to the value, the value returned is the one encoded.
NestedCallsHandled ==
    AllReturned =>
        /\ \A i \in NestedCalls : Reverted(log[i])
        /\ result.err = ""
        /\ IsEncode => (Decoded(result.bytes).err = ""
                        /\ Decoded(result.bytes).ret = Expected(result.of, opts))
        /\ (result.op = "decode" /\ result.of # NoValue) => result.ret = Expected(result.of, opts)

\* C3: a nested encode() does not corrupt the outer write.  The bytes the
\* outer call had written at [0, offset) are the same when the nested call
\* returns, and the outer result is the one obtained from the parts encoded
\* by themselves.
NestedEncodeKeepsOuterBytes ==
    (IsEncode /\ AllReturned) =>
        /\ \A i \in NestedCalls : log[i].post.bytes = log[i].pre.bytes
        /\ result.err = ""
        /\ result.bytes = Reference(result.of)

\* C4: buffer, view and offset are put back also when the nested call
\* throws: an extension function that catches the error finds them as they
\* were before its nested call.
RevertedWhenNestedCallThrows ==
    \A i \in NestedCalls : log[i].threw => Reverted(log[i])

\* C9: for every array, the prefix written is the one of its length and as
\* many encoded values follow it as the array has elements.
ArrayPrefixCountsElements ==
    (IsEncode /\ result.err = "" /\ result.of.t = "Array") =>
        LET prefix == arrayPrefix(NatOf(Len(result.of.items)))
            parts  == ValuesIn(Rest(result.bytes, prefix))
        IN  /\ StartsWith(result.bytes, prefix)
            /\ parts.ok
            /\ Len(parts.values) = Len(result.of.items)

\* C10: for every plain object and ES6 Map, the entries whose value is
\* undefined or a function are left out, the prefix written is the one of the
\* number of entries kept, and each entry kept is written as one encoded key
\* followed by one encoded value, in order.
MapPrefixCountsEntries ==
    (IsEncode /\ result.err = "" /\ (result.of.t = "Map" \/ Ctor(result.of) = "Object")) =>
        LET kept_  == KeptEntries(result.of)
            prefix == mapPrefix(NatOf(Len(kept_))).bytes
            parts  == ValuesIn(Rest(result.bytes, prefix))
        IN  /\ StartsWith(result.bytes, prefix)
            /\ parts.ok
            /\ Len(parts.values) = 2 * Len(kept_)
            /\ \A i \in DOMAIN kept_ : parts.values[2 * i - 1] = Expected(kept_[i].k, opts)

\* C5: encode() returns an owned copy.  The array the application kept from
\* encode() has a buffer of its own and holds the bytes it was returned with,
\* whatever encode(), encodeView() and resizeEncodingBuffer() calls followed;
\* the array encodeView() returns is a part of the encoding buffer.
EncodeReturnsOwnedCopy ==
    /\ kept.arr # NoArr =>
            /\ kept.arr.buf \notin {buffer, view, keptView.arr.buf}
            /\ ArrBytes(heap, kept.arr) = kept.bytes
    /\ (result.op = "encodeView" /\ result.err = "") =>
            /\ result.arr.buf = buffer
            /\ result.bytes = SubSeq(heap[buffer], 1, result.arr.len)

\* The array kept from an earlier encode() after a later call has encoded
\* another value into the encoding buffer, which no longer holds the bytes of
\* the array kept from an encodeView().
OwnedCopyOutlivesView ==
    /\ kept.arr # NoArr
    /\ IsEncode /\ result.err = "" /\ result.of # kept.value
    /\ result.bytes # kept.bytes
    /\ keptView.arr # NoArr
    /\ ArrBytes(heap, keptView.arr) # keptView.bytes

\* The bytes of the smallest unsigned form that holds the magnitude n:
\* one byte up to 127, 0xcc up to 255, 0xcd up to 65535, 0xce up to 2^32-1,
\* 0xcf with the high word and the low word from 2^32.
SmallestUnsigned(n) ==
    IF Le(n, NatOf(127)) THEN LowBytes(n, 1)
    ELSE IF Le(n, NatOf(255)) THEN <<204>> \o LowBytes(n, 1)
    ELSE IF Le(n, NatOf(65535)) THEN <<205>> \o LowBytes(n, 2)
    ELSE IF Le(n, Less1(Pow2(32))) THEN <<206>> \o LowBytes(n, 4)
    ELSE <<207>> \o LowBytes(Widen(SubSeq(n, 1, NumBytes - 4)), 4) \o LowBytes(n, 4)

\* C6: every non-negative safe integer is encoded, without an error, in the
\* smallest unsigned form that holds it.
SmallestUnsignedTag ==
    (IsEncode /\ result.of.t = "number" /\ ~result.of.neg) =>
        (result.err = "" /\ result.bytes = SmallestUnsigned(result.of.mag))

\* 2^32 encoded: the first integer of the 64-bit form.
TwoToThe32Encoded ==
    /\ IsEncode
    /\ result.of = Num(FALSE, Pow2(32))
    /\ result.bytes = <<207, 0, 0, 0, 1, 0, 0, 0, 0>>

\* The bytes of the smallest signed form that holds -n, in two's complement:
\* one byte down to -32, 0xd0 down to -128, 0xd1 down to -32768, 0xd2 down to
\* -2^31, the 64-bit float below.
SmallestSigned(n) ==
    IF Le(n, NatOf(32)) THEN NegBytes(LowBytes(n, 1))
    ELSE IF Le(n, NatOf(128)) THEN <<208>> \o NegBytes(LowBytes(n, 1))
    ELSE IF Le(n, NatOf(32768)) THEN <<209>> \o NegBytes(LowBytes(n, 2))
    ELSE IF Le(n, Pow2(31)) THEN <<210>> \o NegBytes(LowBytes(n, 4))
    ELSE <<203>> \o F64Bytes(Num(TRUE, n))

\* C7: every negative safe integer is encoded in the smallest signed form
\* that holds it, and decoding the bytes yields the integer.
SmallestSignedTag ==
    (IsEncode /\ result.of.t = "number" /\ result.of.neg) =>
        /\ result.err = ""
        /\ result.bytes = SmallestSigned(result.of.mag)
        /\ Decoded(result.bytes).err = ""
        /\ Decoded(result.bytes).ret = result.of

\* The prefix of the smallest width for a count n: the inline tag up to
\* `inline`, then the tags t1 (where there is one), t2 and t4 with the count
\* in 1, 2 and 4 bytes.
SmallestPrefix(kind, n) ==
    LET Widths(inline, base, t1, t2, t4) ==
            IF Le(n, NatOf(inline)) /\ base # 0 THEN <<base + IntOf(n)>>
            ELSE IF Le(n, NatOf(255)) /\ t1 # 0 THEN <<t1>> \o LowBytes(n, 1)
            ELSE IF Le(n, NatOf(65535)) THEN <<t2>> \o LowBytes(n, 2)
            ELSE <<t4>> \o LowBytes(n, 4)
    IN  CASE kind = "string" -> Widths(31, 160, 217, 218, 219)
          [] kind = "Uint8Array" -> Widths(0, 0, 196, 197, 198)
          [] kind = "Array" -> Widths(15, 144, 0, 220, 221)
          [] kind = "Map" -> Widths(15, 128, 0, 222, 223)

\* C8: the prefix written for a text, a byte buffer, an array or a map is
\* the one of the smallest width, and holds the count.
SmallestLengthPrefix ==
    result.op = "prefix" =>
        (result.err = "" /\ result.bytes = SmallestPrefix(result.of.kind, result.of.size))

\* The number of times the value n occurs in v, as an element, a key or a
\* value, at any depth; of the entries of an object or Map either all or
\* those encode() keeps.
RECURSIVE Occurrences(_, _, _)
Occurrences(v, n, all) ==
    LET RECURSIVE Sum(_)
        Sum(seq) == IF seq = <<>> THEN 0 ELSE Occurrences(Head(seq), n, all) + Sum(Tail(seq))
        entries == IF v.t \in {"Map", "object"} THEN (IF all THEN v.entries ELSE KeptEntries(v)) ELSE <<>>
        Parts == IF v.t = "Array" THEN v.items
                 ELSE Concat([i \in DOMAIN entries |-> <<entries[i].k, entries[i].v>>])
    IN  (IF v = n THEN 1 ELSE 0) + Sum(Parts)

\* The nils encode() writes for v, and the times n occurs in a decoded value.
Nils(v) == Occurrences(v, Null, FALSE) + Occurrences(v, Undefined, FALSE)
Decodes(v, n) == Occurrences(v, n, TRUE)

\* The nil keys of the Maps of v that decode into plain objects under o: such
\* a key becomes a property name.
RECURSIVE NilPropertyNames(_, _)
NilPropertyNames(v, o) ==
    LET RECURSIVE Sum(_)
        Sum(seq) == IF seq = <<>> THEN 0 ELSE NilPropertyNames(Head(seq), o) + Sum(Tail(seq))
        kept_ == KeptEntries(v)
        AsObject == /\ ~o.forceES6Map
                    /\ \A i \in DOMAIN kept_ : ~TypeofObject(Expected(kept_[i].k, o))
    IN  CASE v.t = "Array" -> Sum(v.items)
          [] v.t = "Map" ->
                Sum([i \in DOMAIN kept_ |-> kept_[i].v]) + Sum([i \in DOMAIN kept_ |-> kept_[i].k])
                + (IF AsObject
                   THEN Cardinality({i \in DOMAIN kept_ : kept_[i].k.t \in {"null", "undefined"}})
                   ELSE 0)
          [] v.t = "object" -> Sum([i \in DOMAIN kept_ |-> kept_[i].v])
          [] OTHER -> 0

OtherNil(n) == IF n = Null THEN Undefined ELSE Null

\* null and undefined are encoded as the byte 0xc0.
NilEncoded == (IsEncode /\ result.of \in {Null, Undefined}) => result.bytes = <<192>>

RECURSIVE InMapMode(_, _)
InMapMode(v, o) ==
    LET kept_ == KeptEntries(v)
        Key(i) == InMapMode(kept_[i].k, o)
        Val(i) == InMapMode(kept_[i].v, o)
        AsMap == o.forceES6Map \/ \E i \in DOMAIN kept_ : TypeofObject(Key(i))
    IN  CASE v.t \in {"undefined", "null"} -> o.nilValue
          [] v.t = "Array" -> Arr([i \in DOMAIN v.items |-> InMapMode(v.items[i], o)])
          [] v.t = "object" /\ v.ctor # "Object" -> v
          [] v.t \in {"Map", "object"} ->
                IF AsMap THEN MapOf([i \in DOMAIN kept_ |-> Entry(Key(i), Val(i))])
                ELSE Obj([i \in DOMAIN kept_ |-> Entry(Str(KeyText(Key(i))), Val(i))])
          [] OTHER -> v

\* C12: with forceES6Map false a map decodes into a plain object when every
\* decoded key is a primitive and into an ES6 Map of all its pairs, the keys
\* uncoerced, when a decoded key is of type object; with forceES6Map true
\* every map decodes into an ES6 Map.
MapDecodingMode ==
    (result.op = "decode" /\ result.of # NoValue) =>
        (result.err = "" /\ result.ret = InMapMode(result.of, opts))

\* A map whose second key is an object, decoded with forceES6Map false: the
\* first pair, taken into a plain object at first, is in the ES6 Map with the
\* others, and the number key after it is a number.
ObjectAbandonedForMap ==
    /\ result.op = "decode"
    /\ ~opts.forceES6Map
    /\ result.ret = MapOf(<<Entry(TextA, PosInt(1)), Entry(Obj(<<Entry(TextA, TextB)>>), TextC),
                            Entry(PosInt(2), PosInt(3))>>)

\* The type an extension value is registered under, and the size and bytes
\* of the payload of the one that was encoded or whose header was written.
TypeOfResult == IF result.of.t = "extsized" THEN result.of.type ELSE extEncoders["Packet"].type
SizeOfResult ==
    IF result.of.t = "extsized" THEN result.of.size ELSE NatOf(Len(result.of.entries[1].v.bytes))
PayloadOfResult == IF result.of.t = "extsized" THEN <<>> ELSE result.of.entries[1].v.bytes
IsExtWritten ==
    /\ result.op \in {"encode", "encodeView", "writeExt"}
    /\ result.of.t = "extsized" \/ Ctor(result.of) = "Packet"

DateRoundTrip ==
    (result.op = "decode" /\ result.of # NoValue /\ Ctor(result.of) = "Date") =>
        /\ result.err = ""
        /\ result.ret = result.of

\* The payload of the timestamp that was received and decoded.
IsTimestampDecoded == result.op = "decode" /\ arg.t = "received"
TimestampPayload == SubSeq(result.bytes, 4, Len(result.bytes))

\* The time in milliseconds of sec seconds and nano nanoseconds.
MillisOf(sec, nano) == AddTo(Num(sec.neg, MulSmall(sec.mag, 1000)), DivSmall(nano, 1000000).q)

\* The time a timestamp of 4, 8 or 12 bytes stands for: 32-bit seconds;
\* 30-bit nanoseconds and 34-bit seconds; 32-bit nanoseconds and signed
\* 64-bit seconds.
TimestampMillis(p) ==
    CASE Len(p) = 4 -> MillisOf(UintOfBytes(p), Zero)
      [] Len(p) = 8 ->
            LET bits == BytesToBits(p)
            IN  MillisOf(UintOfBytes(BitsToBytes(<<0, 0, 0, 0, 0, 0>> \o SubSeq(bits, 31, 64))),
                         Widen(BitsToBytes(<<0, 0>> \o SubSeq(bits, 1, 30))))
      [] Len(p) = 12 -> MillisOf(SintOfBytes(SubSeq(p, 5, 12)), Widen(SubSeq(p, 1, 4)))

\* C15: a timestamp of 4, 8 or 12 bytes decodes to the Date of its seconds
\* and nanoseconds; one of any other length makes decode throw.
TimestampDecodedByLength ==
    IsTimestampDecoded =>
        IF Len(TimestampPayload) \in {4, 8, 12}
        THEN /\ result.err = ""
             /\ result.ret = Date(TimestampMillis(TimestampPayload))
        ELSE result.err # ""

\* C16: a BigInt from -2^63 to 2^64 - 1 is encoded whole: in the smallest
\* integer form within the safe range, as int 64 below it, as uint 64 above
\* it; any other BigInt makes encode throw a RangeError.
BigIntRangeChecked ==
    (IsEncode /\ result.of.t = "bigint") =>
        LET n == result.of.mag
        IN  IF (result.of.neg /\ Lt(Pow2(63), n)) \/ (~result.of.neg /\ Le(Pow2(64), n))
            THEN result.err \in {"RangeError: [msgpack-es] cannot encode: BigInt is <= -2^63",
                                 "RangeError: [msgpack-es] cannot encode: BigInt is >= 2^64"}
            ELSE /\ result.err = ""
                 /\ result.bytes =
                        IF Lt(n, Pow2(53))
                        THEN (IF result.of.neg THEN SmallestSigned(n) ELSE SmallestUnsigned(n))
                        ELSE IF result.of.neg THEN <<211>> \o NegBytes(LowBytes(n, 8))
                        ELSE <<207>> \o LowBytes(n, 8)

\* C17: a text, byte buffer, map or extension payload is refused exactly
\* when its length is 2^32 or more; the refusal is the RangeError naming the
\* limit and nothing of the item is written.
LimitErrors ==
    {"RangeError: [msgpack-es] cannot encode: binary/string length >= 2^32",
     "RangeError: [msgpack-es] cannot encode: 2^32 or more entries in map",
     "RangeError: [msgpack-es] cannot encode: ext length >= 2^32"}
EncodingLimitsFatal ==
    (result.op \in {"prefix", "writeExt"}) =>
        IF Lt(result.of.size, Pow2(32)) THEN result.err = ""
        ELSE result.err \in LimitErrors /\ result.bytes = <<>>

\* The number a type id is.
TypeId(type) == IF type < 0 THEN NegInt(0 - type) ELSE PosInt(type)

\* C18: an extension of a type with no decoder decodes, under the default
\* unknownExtHandler, into an UnknownExt of the signed type and the payload,
\* and the values after it are decoded; under a handler that throws, decode
\* throws its error.
UnknownExtPassedToHandler ==
    (result.op = "decode" /\ arg.t = "received") =>
        \A type \in UnknownTypes, payload \in UnknownPayloads :
            \A wire \in ExtForms(type, payload) :
                IF opts.unknownExtHandler = "UnknownExt"
                THEN /\ result.bytes = wire =>
                            (result.err = "" /\ result.ret = UnknownExt(TypeId(type), Bin(payload)))
                     /\ result.bytes = FirstOfTwo(wire) =>
                            /\ result.err = ""
                            /\ result.ret = Arr(<<UnknownExt(TypeId(type), Bin(payload)), PosInt(7)>>)
                ELSE result.bytes \in {wire, FirstOfTwo(wire)} =>
                            result.err = "Error: unknownExtHandler"

\* [ext(-3, 01 02 03), 7] decoded after unknownExtHandler was replaced by
\* one that throws and then by the default one again.
UnknownExtInArrayDecoded ==
    /\ result.op = "decode"
    /\ ncalls = 3
    /\ result.bytes = <<146, 199, 3, 253, 1, 2, 3, 7>>
    /\ result.ret = Arr(<<UnknownExt(NegInt(3), Bin(<<1, 2, 3>>)), PosInt(7)>>)

\* C19: a text whose bytes are not UTF-8 decodes, under the default
\* badUTF8Handler, to those bytes, and the values after it are decoded; under
\* a handler that throws, decode throws.
BadUTF8PassedToHandler ==
    (result.op = "decode" /\ arg.t = "received") =>
        \A utf8 \in BadTexts :
            \A wire \in StrForms(utf8) :
                IF opts.badUTF8Handler = "slice"
                THEN /\ result.bytes = wire => (result.err = "" /\ result.ret = Bin(utf8))
                     /\ result.bytes = FirstOfTwo(wire) =>
                            (result.err = "" /\ result.ret = Arr(<<Bin(utf8), PosInt(7)>>))
                ELSE result.bytes \in {wire, FirstOfTwo(wire)} => result.err = "Error: badUTF8Handler"

\* [a surrogate in a str 8, 7] decoded under the default handler.
BadUTF8InArrayDecoded ==
    /\ result.op = "decode"
    /\ opts.badUTF8Handler = "slice"
    /\ result.bytes = <<146, 217, 3, 237, 160, 128, 7>>
    /\ result.ret = Arr(<<Bin(<<237, 160, 128>>), PosInt(7)>>)

\* The registration in force for a class and for a type once the later
\* registration is made: the later one, else the first, else the Date
\* extension; msgpackID 0 with no functions where there is none.
NoRegistration == Registration(0, "", "", "")
InForce(Matches(_)) ==
    IF Matches(arg.later) THEN arg.later
    ELSE IF Matches(arg.first) THEN arg.first
    ELSE IF Matches(DateExtension) THEN DateExtension
    ELSE NoRegistration
ForClass(ctor) == LET Matches(r) == r.ctor = ctor IN InForce(Matches)
ForType(id) == LET Matches(r) == r.msgpackID = id IN InForce(Matches)

\* The type a type byte holds.
TypeOfByte(b) == IF b >= 128 THEN b - 256 ELSE b

\* What the encode functions return for an instance and the decode functions
\* for a payload.
EncodedBy(fn, instance) ==
    CASE fn = "encodePacket" -> instance.entries[1].v.bytes
      [] fn = "encodeLength" -> <<Len(instance.entries[1].v.bytes)>>
      [] fn = "encodeCustomB" -> LowBytes(instance.entries[1].v.mag, 1)
      [] fn = "encodeDate" -> encodeDate(instance.entries[1].v)
DecodedBy(fn, payload) ==
    CASE fn = "decodePacket" -> Packet(Bin(payload))
      [] fn = "decodeCustomB" -> CustomB(PosInt(payload[1]))
      [] fn = "decodeDate" -> Date(TimestampMillis(payload))

\* An extension as writeExt writes one below 2^16 bytes.
ExtWritten(type, payload) ==
    IF Len(payload) = 8 THEN <<215, type % 256>> \o payload
    ELSE <<200, Len(payload) \div 256, Len(payload) % 256, type % 256>> \o payload

EncodingDeterministic ==
    (IsEncode /\ result.err = "") => result.bytes = Alone(result.of)


\* The type of each first byte in the MessagePack layout.
FormatOf(tag) ==
    CASE tag \in 0..127 -> "PosFixInt"
      [] tag \in 128..143 -> "FixMap"
      [] tag \in 144..159 -> "FixArray"
      [] tag \in 160..191 -> "FixString"
      [] tag = 192 -> "Nil"
      [] tag = 193 -> "NeverUsed"
      [] tag \in 194..195 -> <<"False", "True">>[tag - 193]
      [] tag \in 196..198 -> <<"Bin8", "Bin16", "Bin32">>[tag - 195]
      [] tag \in 199..201 -> <<"Ext8", "Ext16", "Ext32">>[tag - 198]
      [] tag \in 202..203 -> <<"Float32", "Float64">>[tag - 201]
      [] tag \in 204..207 -> <<"Uint8", "Uint16", "Uint32", "Uint64">>[tag - 203]
      [] tag \in 208..211 -> <<"Int8", "Int16", "Int32", "Int64">>[tag - 207]
      [] tag \in 212..216 -> <<"FixExt1", "FixExt2", "FixExt4", "FixExt8", "FixExt16">>[tag - 211]
      [] tag \in 217..219 -> <<"String8", "String16", "String32">>[tag - 216]
      [] tag \in 220..221 -> <<"Array16", "Array32">>[tag - 219]
      [] tag \in 222..223 -> <<"Map16", "Map32">>[tag - 221]
      [] tag \in 224..255 -> "NegFixInt"

\* Whether value is what a first byte of that format, with the count in its
\* low bits where it has one and zero bytes after it, stands for.
IsOfFormat(value, tag, format) ==
    LET zeros(n) == [i \in 1..n |-> 0]
        Pairs(n) == IF n = 0 THEN <<>> ELSE <<Entry(Str(<<48>>), PosInt(0))>>
        Keyed(n) == IF n = 0 THEN <<>> ELSE <<Entry(PosInt(0), PosInt(0))>>
        AMap(n)  == IF opts.forceES6Map THEN MapOf(Keyed(n)) ELSE Obj(Pairs(n))
        Ext(n)   == UnknownExt(PosInt(0), Bin(zeros(n)))
    IN  CASE format = "PosFixInt" -> value = PosInt(tag)
          [] format = "NegFixInt" -> value = NegInt(256 - tag)
          [] format = "FixMap" -> value = AMap(tag - 128)
          [] format = "FixArray" -> value = Arr([i \in 1..(tag - 144) |-> PosInt(0)])
          [] format = "FixString" -> value = Str(zeros(tag - 160))
          [] format = "Nil" -> value = opts.nilValue
          [] format = "NeverUsed" -> value = Undefined
          [] format = "False" -> value = Bool(FALSE)
          [] format = "True" -> value = Bool(TRUE)
          [] format \in {"Bin8", "Bin16", "Bin32"} -> value = Bin(<<>>)
          [] format \in {"Ext8", "Ext16", "Ext32"} -> value = Ext(0)
          [] format \in {"FixExt1", "FixExt2", "FixExt4", "FixExt8", "FixExt16"} ->
                value = Ext(2 ^ (tag - 212))
          [] format \in {"String8", "String16", "String32"} -> value = Str(<<>>)
          [] format \in {"Array16", "Array32"} -> value = Arr(<<>>)
          [] format \in {"Map16", "Map32"} -> value = AMap(0)
          [] OTHER -> value = PosInt(0)

\* C22: the tag dispatch table is total and matches the MessagePack layout.
\* Every first byte 0x00..0xff has an entry, the entry is the format the
\* layout gives the byte, and decode returns without an error the value of
\* that format; the byte 0xc1 decodes to undefined.
TagDispatchMatchesLayout ==
    (result.op = "decode" /\ arg.t = "received") =>
        LET tag == arg.bytes[1]
        IN  /\ tag \in DOMAIN typeLookup
            /\ TypeOf(tag) = FormatOf(tag)
            /\ result.err = ""
            /\ IsOfFormat(result.ret, tag, FormatOf(tag))

\* The byte 0xc1 has been decoded to undefined, under a nilValue of null.
NeverUsedDecodedToUndefined ==
    /\ result.op = "decode"
    /\ arg.t = "received"
    /\ arg.bytes[1] = 193
    /\ opts.nilValue = Null
    /\ result.err = ""
    /\ result.ret = Undefined


\* The payload of the timestamp that was encoded: what follows the header
\* 0xd7, type or 0xc8, length, type.
IsTimestampEncoded == IsEncode /\ Ctor(result.of) = "Date" /\ result.err = ""
EncodedTimestamp ==
    IF result.bytes[1] = 215 THEN SubSeq(result.bytes, 3, Len(result.bytes))
    ELSE SubSeq(result.bytes, 5, Len(result.bytes))

\* The floored seconds of ms milliseconds and the nanoseconds left.
SecondsOf(ms) == FloorSeconds(ms, DivSmall(ms.mag, 1000)).s
NanosOf(ms) == NatOf(FloorSeconds(ms, DivSmall(ms.mag, 1000)).r * 1000000)

\* The timestamp 64 and the timestamp 96 of s seconds and ns nanoseconds.
Timestamp64(s, ns) ==
    BitsToBytes(SubSeq(BytesToBits(LowBytes(ns, 4)), 3, 32) \o SubSeq(BytesToBits(LowBytes(s.mag, 5)), 7, 40))
Timestamp96(s, ns) == LowBytes(ns, 4) \o ToBytes(s, 8)

\* C23: the payload of an encoded Date is, for a time that is not negative
\* and whose floored seconds fit in 34 bits, the 8 bytes of the 30-bit
\* nanoseconds and the 34-bit seconds, and otherwise the 12 bytes of the
\* nanoseconds as an unsigned 32-bit word and the seconds as a signed 64-bit
\* two's-complement value; the nanoseconds are below 10^9.
TimestampEncodedBySeconds ==
    IsTimestampEncoded =>
        LET ms == result.of.entries[1].v
            s  == SecondsOf(ms)
            ns == NanosOf(ms)
        IN  /\ Lt(ns, NatOf(1000000000))
            /\ EncodedTimestamp = IF ~ms.neg /\ Lt(s.mag, Pow2(34)) THEN Timestamp64(s, ns)
                                  ELSE Timestamp96(s, ns)


\* The offset at which takeGeneric leaves the decoder that decode(data) has
\* set up, and whether it threw.
Taken(data) == takeGeneric([PristineDec EXCEPT !.buffer = Own(data), !.view = ViewOf(Own(data))])

\* C24: the cursor invariant.  When the decoder has read a complete value
\* that starts at offset 0, the offset is the encoded length of the value,
\* whatever follows it: also for a map that was first decoded into an object,
\* rewound to its start and decoded again as an ES6 Map.
CursorAtEndOfValue ==
    (result.op = "decode" /\ arg.t = "message") =>
        /\ result.err = ""
        /\ Taken(arg.bytes \o arg.rest).offset = Len(arg.bytes)


\* C25: buffer growth.  Every write finds room: it ends without an error,
\* the n bytes are inside the buffer, and the bytes written before it are
\* still the first bytes of the buffer.  The buffer is the same size after
\* the write, or offset + n did not fit and the new one holds at least
\* max(2 x old capacity, offset + n) bytes.  This holds from any capacity,
\* also the capacity 0 that resizeEncodingBuffer sets.
WritesFindRoom ==
    [][result'.op = "write" =>
            LET old == heap[buffer]
                new == heap'[buffer']
            IN  /\ result'.err = ""
                /\ offset' > offset
                /\ offset' <= Len(new)
                /\ SubSeq(new, 1, offset) = SubSeq(old, 1, offset)
                /\ \/ Len(new) = Len(old) /\ offset' <= Len(old)
                   \/ offset' > Len(old) /\ Len(new) >= Max(2 * Len(old), offset')]_vars

\* A write of 9 bytes into a buffer of capacity 0 has allocated one of 9
\* bytes, and a write at the end of a buffer of 2 bytes has doubled it.
GrownFromNothing ==
    /\ result.op = "write"
    /\ result.err = ""
    /\ \/ offset = 9 /\ Len(heap[buffer]) = 9
       \/ offset = 3 /\ Len(heap[buffer]) = 4


\* How many times takeMap was called for the map whose first key is at p.
PassesOf(passes, p) == Cardinality({i \in DOMAIN passes : passes[i] = p})

\* C26: the restart of a map is bounded to once per map.  During one decode
\* call takeMap runs at most twice for every map of the input (once into an
\* object, and at most once more into an ES6 Map), also for maps inside the
\* keys and values of a map that is itself restarted, and decode returns.
MapsDecodedAtMostTwice ==
    (result.op = "decode" /\ arg.t = "message") =>
        /\ result.err = ""
        /\ \A p \in 1..Len(arg.bytes) : PassesOf(Taken(arg.bytes \o arg.rest).passes, p) <= 2


\* C27: decode(data) reads no byte outside data.  Where data holds only the
\* first bytes of a number, so that the read of its fixed width would pass
\* the end of data, decode throws, whatever the ArrayBuffer of data holds
\* after them; it does not return a value.
NoReadOutsideData ==
    (result.op = "decode" /\ arg.t = "part" /\ arg.length < arg.whole) => result.err # ""


\* C28: truncated input is rejected.  Where the header of a text, a byte
\* buffer or an extension declares more payload bytes than the input holds
\* after it, decode throws; it returns no value made of the shorter payload.
TruncatedInputRejected ==
    (result.op = "decode" /\ arg.t = "part") =>
        IF arg.length < arg.whole THEN result.err # "" /\ result.ret = NoValue
        ELSE result.err = ""


\* The keys and values of the fixmap that was received, each decoded by
\* itself: the values that follow the first byte, in pairs.
PairsReceived ==
    LET parts == ValuesIn(Rest(result.bytes, <<result.bytes[1]>>)).values
    IN  [i \in 1..(result.bytes[1] - 128) |-> Entry(parts[2 * i - 1], parts[2 * i])]

\* C29: with forceES6Map false, a map of n pairs whose decoded keys are
\* primitives, no two of them the same value, decodes to an object of
\* exactly n entries, each value under the key it was paired with: no pair
\* is lost because two keys have the same property name.
PrimitiveKeysKeepTheirPairs ==
    (/\ result.op = "decode"
     /\ arg.t = "message"
     /\ ~opts.forceES6Map
     /\ \A i \in DOMAIN PairsReceived : ~TypeofObject(PairsReceived[i].k)
     /\ \A i, j \in DOMAIN PairsReceived : i # j => PairsReceived[i].k # PairsReceived[j].k)
        => /\ result.err = ""
           /\ Ctor(result.ret) = "Object"
           /\ Len(result.ret.entries) = Len(PairsReceived)
           /\ \A i \in DOMAIN PairsReceived :
                \E j \in DOMAIN result.ret.entries :
                    result.ret.entries[j] = Entry(Str(KeyText(PairsReceived[i].k)), PairsReceived[i].v)


\* C30: the registries are consistent.  After the registerExtension calls,
\* for every class of the encode registry the decode function stored for the
\* type of its entry is the one that was registered with the entry's encode
\* function, and no two classes have the same type.
RegistriesConsistent ==
    (arg.t = "registering" /\ ncalls > 0) =>
        /\ \A c \in DOMAIN extEncoders :
                /\ extEncoders[c] = [type |-> ForClass(c).msgpackID, fn |-> ForClass(c).encode]
                /\ extDecoders[extEncoders[c].type + 128] = ForClass(c).decode
        /\ \A c, d \in DOMAIN extEncoders : c # d => extEncoders[c].type # extEncoders[d].type

====
